---------------------------- MODULE Spec2Model ----------------------------
(***************************************************************************)
(* Model of the declarative automation runtime of nl_to_automation:        *)
(* executor.py (execute_automation, execute_tool, normalize_for_context,   *)
(* extract_json_from_string), conditions.py and templates.py.              *)
(*                                                                         *)
(* Python values ("documents") are tagged records:                         *)
(*   None -> [t |-> "null"]        bool -> [t |-> "bool", b |-> ...]       *)
(*   int  -> [t |-> "num", n |-> ...]   str -> [t |-> "str", s |-> ...]    *)
(*   list -> [t |-> "list", xs |-> <<...>>]                                *)
(*   dict -> [t |-> "map", kv |-> << <<key, value>>, ... >>]               *)
(* A dict keeps its keys in insertion order, as the Python dict does.      *)
(* Python strings are TLA+ strings, read character by character with Len   *)
(* and SubSeq.                                                             *)
(***************************************************************************)
EXTENDS Integers, Sequences, FiniteSets, TLC

(***************************************************************************)
(* Documents                                                               *)
(***************************************************************************)
Null == [t |-> "null"]

Bool(b) == [t |-> "bool", b |-> b]

Num(n) == [t |-> "num", n |-> n]

Str(s) == [t |-> "str", s |-> s]

List(xs) == [t |-> "list", xs |-> xs]

Map(kv) == [t |-> "map", kv |-> kv]

IsDict(d) == d.t = "map"

IsList(d) == d.t = "list"

IsStr(d) == d.t = "str"

\* Python truthiness: bool(d)
Truthy(d) ==
    CASE d.t = "null" -> FALSE
      [] d.t = "bool" -> d.b
      [] d.t = "num"  -> d.n # 0
      [] d.t = "str"  -> d.s # ""
      [] d.t = "list" -> d.xs # <<>>
      [] d.t = "map"  -> d.kv # <<>>
      [] OTHER        -> TRUE

\* Python `a or b`
PyOr(a, b) == IF Truthy(a) THEN a ELSE b

\* k in d
HasKey(d, k) == \E i \in 1..Len(d.kv) : d.kv[i][1] = k

KeyPos(d, k) == CHOOSE i \in 1..Len(d.kv) : d.kv[i][1] = k

\* d.get(k, default)
GetOr(d, k, default) == IF HasKey(d, k) THEN d.kv[KeyPos(d, k)][2] ELSE default

\* d.get(k)
Get(d, k) == GetOr(d, k, Null)

\* d[k] = v : an existing key keeps its position, a new key goes last
SetKey(d, k, v) ==
    IF HasKey(d, k)
    THEN Map([d.kv EXCEPT ![KeyPos(d, k)] = <<k, v>>])
    ELSE Map(Append(d.kv, <<k, v>>))

\* {**a, **b}
RECURSIVE Spread(_, _)
Spread(a, b) ==
    IF b.kv = <<>> THEN a
    ELSE Spread(SetKey(a, b.kv[1][1], b.kv[1][2]), Map(Tail(b.kv)))

Keys(d) == {d.kv[i][1] : i \in 1..Len(d.kv)}

\* Python == on documents: dicts compare as unordered, True == 1
RECURSIVE PyEq(_, _)
PyEq(a, b) ==
    CASE a.t = "map" /\ b.t = "map" ->
           /\ Keys(a) = Keys(b)
           /\ \A k \in Keys(a) : PyEq(Get(a, k), Get(b, k))
      [] a.t = "list" /\ b.t = "list" ->
           /\ Len(a.xs) = Len(b.xs)
           /\ \A i \in 1..Len(a.xs) : PyEq(a.xs[i], b.xs[i])
      [] a.t = "bool" /\ b.t = "num" -> (IF a.b THEN 1 ELSE 0) = b.n
      [] a.t = "num" /\ b.t = "bool" -> a.n = (IF b.b THEN 1 ELSE 0)
      [] OTHER -> a = b

(***************************************************************************)
(* Strings                                                                 *)
(***************************************************************************)
Char(s, i) == SubSeq(s, i, i)

Digits == {"0", "1", "2", "3", "4", "5", "6", "7", "8", "9"}

Whitespace == {" ", "\t", "\n", "\r"}

\* s.startswith(p)
StartsWith(s, p) == Len(s) >= Len(p) /\ SubSeq(s, 1, Len(p)) = p

\* p occurs in s at position i
OccursAt(s, p, i) == i >= 1 /\ i + Len(p) - 1 <= Len(s) /\ SubSeq(s, i, i + Len(p) - 1) = p

\* s.find(p, from): first position >= from at which p occurs, 0 if none
Find(s, p, from) ==
    LET hits == {i \in from..Len(s) : OccursAt(s, p, i)}
    IN IF hits = {} THEN 0 ELSE CHOOSE i \in hits : \A j \in hits : i <= j

\* s.rfind(p): last position at which p occurs, 0 if none
RFind(s, p) ==
    LET hits == {i \in 1..Len(s) : OccursAt(s, p, i)}
    IN IF hits = {} THEN 0 ELSE CHOOSE i \in hits : \A j \in hits : i >= j

\* s.strip()
Strip(s) ==
    LET keep == {i \in 1..Len(s) : Char(s, i) \notin Whitespace}
    IN IF keep = {} THEN ""
       ELSE SubSeq(s, CHOOSE i \in keep : \A j \in keep : i <= j,
                      CHOOSE i \in keep : \A j \in keep : i >= j)

\* Characters for which str.isdigit() is true and which int() rejects: the
\* superscript digits.  The texts of the model write the superscript two as ^.
SuperscriptDigits == {"^"}

\* s.isdigit()
IsDigit(s) == s # "" /\ \A i \in 1..Len(s) : Char(s, i) \in Digits \cup SuperscriptDigits

\* the text is one or more decimal digits, which int() accepts
IsDecimal(s) == s # "" /\ \A i \in 1..Len(s) : Char(s, i) \in Digits

DigitVal(c) ==
    CASE c = "0" -> 0 [] c = "1" -> 1 [] c = "2" -> 2 [] c = "3" -> 3 [] c = "4" -> 4
      [] c = "5" -> 5 [] c = "6" -> 6 [] c = "7" -> 7 [] c = "8" -> 8 [] c = "9" -> 9

RECURSIVE DigitsVal(_)
DigitsVal(s) ==
    IF s = "" THEN 0
    ELSE 10 * DigitsVal(SubSeq(s, 1, Len(s) - 1)) + DigitVal(Char(s, Len(s)))

\* int(s) for an optionally negative digit string
IntOf(s) == IF Char(s, 1) = "-" THEN 0 - DigitsVal(Tail(s)) ELSE DigitsVal(s)

\* s.split(sep) for a one-character separator
RECURSIVE Split(_, _)
Split(s, sep) ==
    LET p == Find(s, sep, 1)
    IN IF p = 0 THEN <<s>>
       ELSE <<SubSeq(s, 1, p - 1)>> \o Split(SubSeq(s, p + 1, Len(s)), sep)

(***************************************************************************)
(* templates.py: get_nested_value                                          *)
(***************************************************************************)
\* end of the run of digits that starts at position i (i - 1 if there is none)
RECURSIVE DigitRunEnd(_, _)
DigitRunEnd(s, i) ==
    IF i <= Len(s) /\ Char(s, i) \in Digits THEN DigitRunEnd(s, i + 1) ELSE i - 1

\* re.sub of [digits] by .digits in the path
RECURSIVE BracketRewrite(_)
BracketRewrite(s) ==
    LET hits == {i \in 1..Len(s) :
                   /\ Char(s, i) = "["
                   /\ DigitRunEnd(s, i + 1) >= i + 1
                   /\ DigitRunEnd(s, i + 1) < Len(s)
                   /\ Char(s, DigitRunEnd(s, i + 1) + 1) = "]"}
    IN IF hits = {} THEN s
       ELSE LET i == CHOOSE h \in hits : \A j \in hits : h <= j
                e == DigitRunEnd(s, i + 1)
            IN SubSeq(s, 1, i - 1) \o "." \o SubSeq(s, i + 1, e)
                 \o BracketRewrite(SubSeq(s, e + 2, Len(s)))

\* what a call returns in the model when int() raises ValueError inside it
ValueError == [t |-> "ValueError"]

\* part.isdigit() or (part.startswith('-') and part[1:].isdigit())
\* (variant) no segment is taken as an index
IsNumericPart_never(part) == FALSE

IsNumericPart(part) == IsDigit(part) \/ (StartsWith(part, "-") /\ IsDigit(Tail(part)))

\* the while loop of get_nested_value, from part i on
RECURSIVE WalkParts(_, _, _)
WalkParts(current, parts, i) ==
    IF i > Len(parts) THEN current
    ELSE IF current = Null THEN Null
    ELSE LET part == parts[i] IN
         IF IsNumericPart(part)
         THEN LET idx == IntOf(part) IN
              \* idx = int(part)
              IF ~IsDecimal(IF StartsWith(part, "-") THEN Tail(part) ELSE part)
              THEN ValueError
              ELSE IF IsList(current)
              THEN IF 0 - Len(current.xs) <= idx /\ idx < Len(current.xs)
                   THEN WalkParts(current.xs[IF idx >= 0 THEN idx + 1
                                             ELSE Len(current.xs) + idx + 1], parts, i + 1)
                   ELSE Null
              ELSE IF IsDict(current) /\ HasKey(current, part)
                   THEN WalkParts(Get(current, part), parts, i + 1)
              ELSE IF IsDict(current) /\ idx = 0
                   THEN WalkParts(current, parts, i + 1)
              ELSE Null
         ELSE IF IsDict(current)
              THEN WalkParts(Get(current, part), parts, i + 1)
              ELSE Null

get_nested_value(data, path) ==
    IF data = Null THEN Null
    ELSE WalkParts(data, Split(BracketRewrite(path), "."), 1)

(***************************************************************************)
(* str(), repr(), json.dumps() and str.lower() of documents                *)
(***************************************************************************)
LowerChar(c) ==
    CASE c = "A" -> "a" [] c = "B" -> "b" [] c = "C" -> "c" [] c = "D" -> "d"
      [] c = "E" -> "e" [] c = "F" -> "f" [] c = "G" -> "g" [] c = "H" -> "h"
      [] c = "I" -> "i" [] c = "J" -> "j" [] c = "K" -> "k" [] c = "L" -> "l"
      [] c = "M" -> "m" [] c = "N" -> "n" [] c = "O" -> "o" [] c = "P" -> "p"
      [] c = "Q" -> "q" [] c = "R" -> "r" [] c = "S" -> "s" [] c = "T" -> "t"
      [] c = "U" -> "u" [] c = "V" -> "v" [] c = "W" -> "w" [] c = "X" -> "x"
      [] c = "Y" -> "y" [] c = "Z" -> "z" [] OTHER -> c

RECURSIVE Lower(_)
Lower(s) == IF s = "" THEN "" ELSE LowerChar(Char(s, 1)) \o Lower(Tail(s))

\* json.dumps of one string: quotes, with ", \ and control characters escaped
RECURSIVE JsonEscape(_)
JsonEscape(s) ==
    IF s = "" THEN ""
    ELSE LET c == Char(s, 1) IN
         (CASE c = "\"" -> "\\\"" [] c = "\\" -> "\\\\" [] c = "\n" -> "\\n"
            [] c = "\t" -> "\\t" [] c = "\r" -> "\\r" [] OTHER -> c)
         \o JsonEscape(Tail(s))

RECURSIVE json_dumps(_)
RECURSIVE JsonItems(_, _)
JsonItems(d, i) ==
    LET n == IF IsDict(d) THEN Len(d.kv) ELSE Len(d.xs) IN
    IF i > n THEN ""
    ELSE (IF i > 1 THEN ", " ELSE "")
         \o (IF IsDict(d)
             THEN "\"" \o JsonEscape(d.kv[i][1]) \o "\": " \o json_dumps(d.kv[i][2])
             ELSE json_dumps(d.xs[i]))
         \o JsonItems(d, i + 1)

json_dumps(d) ==
    CASE d.t = "null" -> "null"
      [] d.t = "bool" -> IF d.b THEN "true" ELSE "false"
      [] d.t = "num"  -> ToString(d.n)
      [] d.t = "str"  -> "\"" \o JsonEscape(d.s) \o "\""
      [] d.t = "list" -> "[" \o JsonItems(d, 1) \o "]"
      [] d.t = "map"  -> "{" \o JsonItems(d, 1) \o "}"

\* repr(): strings in single quotes (strings of the model hold no quote that
\* would change the quoting)
RECURSIVE py_repr(_)
RECURSIVE ReprItems(_, _)
ReprItems(d, i) ==
    LET n == IF IsDict(d) THEN Len(d.kv) ELSE Len(d.xs) IN
    IF i > n THEN ""
    ELSE (IF i > 1 THEN ", " ELSE "")
         \o (IF IsDict(d)
             THEN "'" \o d.kv[i][1] \o "': " \o py_repr(d.kv[i][2])
             ELSE py_repr(d.xs[i]))
         \o ReprItems(d, i + 1)

py_repr(d) ==
    CASE d.t = "null" -> "None"
      [] d.t = "bool" -> IF d.b THEN "True" ELSE "False"
      [] d.t = "num"  -> ToString(d.n)
      [] d.t = "str"  -> "'" \o d.s \o "'"
      [] d.t = "list" -> "[" \o ReprItems(d, 1) \o "]"
      [] d.t = "map"  -> "{" \o ReprItems(d, 1) \o "}"

\* str()
py_str(d) == IF IsStr(d) THEN d.s ELSE py_repr(d)

\* p in s
Contains(s, p) == p = "" \/ Find(s, p, 1) # 0

EndsWith(s, p) == Len(s) >= Len(p) /\ SubSeq(s, Len(s) - Len(p) + 1, Len(s)) = p

\* the text is an integer literal that int() and float() accept:
\* optional surrounding whitespace, optional sign, digits
IsIntText(s) ==
    LET b == Strip(s)
        u == IF StartsWith(b, "-") \/ StartsWith(b, "+") THEN Tail(b) ELSE b
    IN IsDecimal(u)

IntTextVal(s) ==
    LET b == Strip(s) IN
    IF StartsWith(b, "+") THEN DigitsVal(Tail(b)) ELSE IntOf(b)

(***************************************************************************)
(* templates.py: resolve_template, resolve_parameters                      *)
(***************************************************************************)
NoData == "[No available data]"

BuiltinNames ==
    {"today", "tomorrow", "yesterday", "two_days_ago", "this_week_start",
     "this_week_end", "now", "now_minus_1h", "now_minus_6h", "now_minus_12h",
     "now_minus_24h", "today_utc", "yesterday_utc", "tomorrow_utc",
     "today_local", "yesterday_local", "tomorrow_local"}

\* The built-in variables, read at the clock instant 2026-11-02T12:00:00Z (a
\* Monday); at that instant the user's date equals the UTC date in the time
\* zones of the model.
builtin_value(name) ==
    CASE name \in {"today", "today_utc", "today_local", "this_week_start"} -> "2026-11-02"
      [] name \in {"tomorrow", "tomorrow_utc", "tomorrow_local"} -> "2026-11-03"
      [] name \in {"yesterday", "yesterday_utc", "yesterday_local"} -> "2026-11-01"
      [] name = "two_days_ago" -> "2026-10-31"
      [] name = "this_week_end" -> "2026-11-08"
      [] name = "now" -> "2026-11-02T12:00:00Z"
      [] name = "now_minus_1h" -> "2026-11-02T11:00:00Z"
      [] name = "now_minus_6h" -> "2026-11-02T06:00:00Z"
      [] name = "now_minus_12h" -> "2026-11-02T00:00:00Z"
      [] name = "now_minus_24h" -> "2026-11-01T12:00:00Z"

\* replace_var: the text (as a str document) that replaces the placeholder
\* with this body, or ValueError when the lookup raises
replace_var(body, context) ==
    LET Text(value) ==
            IF value = ValueError THEN ValueError
            ELSE IF value = Null THEN Str(NoData)
            ELSE IF IsDict(value) \/ IsList(value) THEN Str(json_dumps(value))
            ELSE Str(py_str(value))
        Replace(var_path) ==
            IF var_path \in BuiltinNames THEN Str(builtin_value(var_path))
            ELSE Text(get_nested_value(context, var_path))
    IN Replace(Strip(body))

\* end of the run of characters other than "}" that starts at position i
RECURSIVE BodyRunEnd(_, _)
BodyRunEnd(s, i) ==
    IF i <= Len(s) /\ Char(s, i) # "}" THEN BodyRunEnd(s, i + 1) ELSE i - 1

\* the placeholder pattern matches at position i: two open braces, one or
\* more characters other than a close brace, two close braces
PlaceholderAt(s, i) ==
    /\ OccursAt(s, "{{", i)
    /\ BodyRunEnd(s, i + 2) >= i + 2
    /\ OccursAt(s, "}}", BodyRunEnd(s, i + 2) + 1)

\* (variant) the text put in for a placeholder is scanned again
RECURSIVE SubstituteAllRescans(_, _)
SubstituteAllRescans(s, context) ==
    LET hits == {i \in 1..Len(s) : PlaceholderAt(s, i)}
        Again(head, text, rest) ==
            IF text = ValueError THEN ValueError
            ELSE SubstituteAllRescans(head \o text.s \o rest, context)
        From(i, e) ==
            Again(SubSeq(s, 1, i - 1), replace_var(SubSeq(s, i + 2, e), context),
                  SubSeq(s, e + 3, Len(s)))
        First(i) == From(i, BodyRunEnd(s, i + 2))
    IN IF hits = {} THEN Str(s)
       ELSE First(CHOOSE h \in hits : \A j \in hits : h <= j)

\* re.sub(pattern, replace_var, template): one left-to-right pass; the text
\* put in for a placeholder is not scanned again.  A str document, or
\* ValueError when a replace_var call raises.
RECURSIVE SubstituteAll(_, _)
SubstituteAll(s, context) ==
    LET hits == {i \in 1..Len(s) : PlaceholderAt(s, i)}
        Join(head, text, rest) ==
            IF text = ValueError \/ rest = ValueError THEN ValueError
            ELSE Str(head \o text.s \o rest.s)
        From(i, e) ==
            Join(SubSeq(s, 1, i - 1), replace_var(SubSeq(s, i + 2, e), context),
                 SubstituteAll(SubSeq(s, e + 3, Len(s)), context))
        First(i) == From(i, BodyRunEnd(s, i + 2))
    IN IF hits = {} THEN Str(s)
       ELSE First(CHOOSE h \in hits : \A j \in hits : h <= j)

\* resolve_template on a document: a non-string is returned as it is
resolve_template(template, context) ==
    IF ~IsStr(template) THEN template ELSE SubstituteAll(template.s, context)

\* one of the values of the sequence is ValueError
AnyRaised(values) == \E i \in 1..Len(values) : values[i] = ValueError

RECURSIVE resolve_parameters(_, _)
ResolveListItem(item, context) ==
    IF IsStr(item) THEN resolve_template(item, context)
    ELSE IF IsDict(item) THEN resolve_parameters(item, context)
    ELSE item

ResolveValue(value, context) ==
    LET Items(xs) == IF AnyRaised(xs) THEN ValueError ELSE List(xs)
    IN IF IsStr(value) THEN resolve_template(value, context)
       ELSE IF IsDict(value) THEN resolve_parameters(value, context)
       ELSE IF IsList(value)
            THEN Items([i \in 1..Len(value.xs) |-> ResolveListItem(value.xs[i], context)])
       ELSE value

\* the resolved dict, or ValueError when a resolve_template call raises
resolve_parameters(params, context) ==
    LET Resolved(kv) ==
            IF AnyRaised([i \in 1..Len(kv) |-> kv[i][2]]) THEN ValueError ELSE Map(kv)
    IN Resolved([i \in 1..Len(params.kv) |->
                   <<params.kv[i][1], ResolveValue(params.kv[i][2], context)>>])

\* resolve_parameters raises: AttributeError on params.items() unless params
\* is a dict (at the top level; nested calls are made on dicts only), or the
\* ValueError of a lookup
resolve_parameters_raises(params, context) ==
    IF ~IsDict(params) THEN TRUE ELSE resolve_parameters(params, context) = ValueError

(***************************************************************************)
(* conditions.py                                                           *)
(***************************************************************************)
\* float(d) succeeds.  Numbers of the model are integers; the strings of the
\* model that float() accepts are integer literals.
FloatOk(d) == d.t \in {"num", "bool"} \/ (IsStr(d) /\ IsIntText(d.s))

FloatVal(d) ==
    CASE d.t = "num"  -> d.n
      [] d.t = "bool" -> IF d.b THEN 1 ELSE 0
      [] d.t = "str"  -> IntTextVal(d.s)

\* (variant) without the early return on None
compare_values_none_compared(actual, op, expected) ==
    IF op = Str("exists") THEN actual # Null
    ELSE IF op = Str("not_exists") THEN actual = Null
    ELSE IF op \in {Str("<"), Str(">"), Str("<="), Str(">=")}
    THEN IF ~(FloatOk(actual) /\ FloatOk(expected)) THEN FALSE
         ELSE LET Ordered(a, e) == CASE op = Str("<")  -> a < e
                                     [] op = Str(">")  -> a > e
                                     [] op = Str("<=") -> a <= e
                                     [] op = Str(">=") -> a >= e
              IN Ordered(FloatVal(actual), FloatVal(expected))
    ELSE IF op \in {Str("=="), Str("eq")} THEN PyEq(actual, expected)
    ELSE IF op \in {Str("!="), Str("neq")} THEN ~PyEq(actual, expected)
    ELSE IF op = Str("contains")
    THEN Contains(Lower(py_str(actual)), Lower(py_str(expected)))
    ELSE IF op = Str("not_contains")
    THEN ~Contains(Lower(py_str(actual)), Lower(py_str(expected)))
    ELSE IF op = Str("starts_with")
    THEN StartsWith(Lower(py_str(actual)), Lower(py_str(expected)))
    ELSE IF op = Str("ends_with")
    THEN EndsWith(Lower(py_str(actual)), Lower(py_str(expected)))
    ELSE FALSE

compare_values(actual, op, expected) ==
    IF op = Str("exists") THEN actual # Null
    ELSE IF op = Str("not_exists") THEN actual = Null
    ELSE IF actual = Null THEN FALSE
    ELSE IF op \in {Str("<"), Str(">"), Str("<="), Str(">=")}
    THEN IF ~(FloatOk(actual) /\ FloatOk(expected)) THEN FALSE
         ELSE LET Ordered(a, e) == CASE op = Str("<")  -> a < e
                                     [] op = Str(">")  -> a > e
                                     [] op = Str("<=") -> a <= e
                                     [] op = Str(">=") -> a >= e
              IN Ordered(FloatVal(actual), FloatVal(expected))
    ELSE IF op \in {Str("=="), Str("eq")} THEN PyEq(actual, expected)
    ELSE IF op \in {Str("!="), Str("neq")} THEN ~PyEq(actual, expected)
    ELSE IF op = Str("contains")
    THEN Contains(Lower(py_str(actual)), Lower(py_str(expected)))
    ELSE IF op = Str("not_contains")
    THEN ~Contains(Lower(py_str(actual)), Lower(py_str(expected)))
    ELSE IF op = Str("starts_with")
    THEN StartsWith(Lower(py_str(actual)), Lower(py_str(expected)))
    ELSE IF op = Str("ends_with")
    THEN EndsWith(Lower(py_str(actual)), Lower(py_str(expected)))
    ELSE FALSE

\* evaluate_clause raises: clause.get on a non-dict (AttributeError), the
\* ValueError of a lookup made for the expected value or for the path, or
\* re.sub on a path that is not a string (TypeError)
evaluate_clause_raises(clause, context) ==
    IF ~IsDict(clause) THEN TRUE
    ELSE IF IsStr(Get(clause, "value"))
            /\ resolve_template(Get(clause, "value"), context) = ValueError THEN TRUE
    ELSE IF ~IsStr(GetOr(clause, "path", Str(""))) THEN TRUE
    ELSE get_nested_value(context, GetOr(clause, "path", Str("")).s) = ValueError

\* the expected value of a clause: a string is template-resolved, then turned
\* into a number when int() accepts it ('.' in the text: float(), which no
\* string of the model passes)
ExpectedOf(clause, context) ==
    LET Converted(r) ==
            IF ~Contains(r.s, ".") /\ IsIntText(r.s) THEN Num(IntTextVal(r.s)) ELSE r
        Resolved(expected) ==
            IF ~IsStr(expected) THEN expected
            ELSE Converted(resolve_template(expected, context))
    IN Resolved(Get(clause, "value"))

evaluate_clause(clause, context) ==
    compare_values(get_nested_value(context, GetOr(clause, "path", Str("")).s),
                   GetOr(clause, "op", Str("==")),
                   ExpectedOf(clause, context))

\* all(...) / any(...) over the clauses from position i on, with the
\* generator's short circuit: "true", "false" or "raise"
RECURSIVE EvalClauses(_, _, _, _)
EvalClauses(clauses, i, isAnd, context) ==
    IF i > Len(clauses) THEN (IF isAnd THEN "true" ELSE "false")
    ELSE IF evaluate_clause_raises(clauses[i], context) THEN "raise"
    ELSE IF evaluate_clause(clauses[i], context) = isAnd
         THEN EvalClauses(clauses, i + 1, isAnd, context)
         ELSE (IF isAnd THEN "false" ELSE "true")

UpperChar(c) ==
    CASE c = "a" -> "A" [] c = "b" -> "B" [] c = "c" -> "C" [] c = "d" -> "D"
      [] c = "e" -> "E" [] c = "f" -> "F" [] c = "g" -> "G" [] c = "h" -> "H"
      [] c = "i" -> "I" [] c = "j" -> "J" [] c = "k" -> "K" [] c = "l" -> "L"
      [] c = "m" -> "M" [] c = "n" -> "N" [] c = "o" -> "O" [] c = "p" -> "P"
      [] c = "q" -> "Q" [] c = "r" -> "R" [] c = "s" -> "S" [] c = "t" -> "T"
      [] c = "u" -> "U" [] c = "v" -> "V" [] c = "w" -> "W" [] c = "x" -> "X"
      [] c = "y" -> "Y" [] c = "z" -> "Z" [] OTHER -> c

RECURSIVE Upper(_)
Upper(s) == IF s = "" THEN "" ELSE UpperChar(Char(s, 1)) \o Upper(Tail(s))

\* (variant) without the early return on an empty clause list
evaluate_condition_no_empty_case(condition, context) ==
    IF ~Truthy(condition) THEN "true"
    ELSE IF ~IsDict(condition) THEN "raise"
    ELSE IF HasKey(condition, "path")
    THEN IF evaluate_clause_raises(condition, context) THEN "raise"
         ELSE IF evaluate_clause(condition, context) THEN "true" ELSE "false"
    ELSE LET operator == GetOr(condition, "operator", Str("AND"))
             clauses == GetOr(condition, "clauses", List(<<>>))
         IN IF ~IsStr(operator) THEN "raise"
            ELSE IF Upper(operator.s) \notin {"AND", "OR"} THEN "false"
            ELSE IF ~IsList(clauses) THEN "raise"
            ELSE EvalClauses(clauses.xs, 1, Upper(operator.s) = "AND", context)

\* evaluate_condition: "true", "false", or "raise" when the call raises
evaluate_condition(condition, context) ==
    IF ~Truthy(condition) THEN "true"
    ELSE IF ~IsDict(condition) THEN "raise"
    ELSE IF HasKey(condition, "path")
    THEN IF evaluate_clause_raises(condition, context) THEN "raise"
         ELSE IF evaluate_clause(condition, context) THEN "true" ELSE "false"
    ELSE LET operator == GetOr(condition, "operator", Str("AND"))
             clauses == GetOr(condition, "clauses", List(<<>>))
         IN IF ~IsStr(operator) THEN "raise"
            ELSE IF ~Truthy(clauses) THEN "true"
            ELSE IF Upper(operator.s) \notin {"AND", "OR"} THEN "false"
            ELSE IF ~IsList(clauses) THEN "raise"
            ELSE EvalClauses(clauses.xs, 1, Upper(operator.s) = "AND", context)

(***************************************************************************)
(* executor.py: normalize_for_context                                      *)
(***************************************************************************)
wrapper_keys == {"data", "summary", "result", "response", "output"}

flatten_and_keep_keys == {"contributors", "user", "author", "goals"}

IsContainer(d) == IsDict(d) \/ IsList(d)

\* for k, v in src.items(): if k not in normalized: normalized[k] = v
\* (primitivesOnly: and v is neither a dict nor a list)
RECURSIVE CopyMissing(_, _, _, _)
CopyMissing(normalized, src, i, primitivesOnly) ==
    IF i > Len(src.kv) THEN normalized
    ELSE LET k == src.kv[i][1]
             v == src.kv[i][2]
         IN CopyMissing(IF ~HasKey(normalized, k) /\ ~(primitivesOnly /\ IsContainer(v))
                        THEN SetKey(normalized, k, v) ELSE normalized,
                        src, i + 1, primitivesOnly)

\* the loop of flatten_nested_object over value.items(), from position i on
RECURSIVE FlattenNestedLoop(_, _, _, _)
FlattenNestedLoop(normalized, key, value, i) ==
    IF i > Len(value.kv) THEN normalized
    ELSE LET nested_key == value.kv[i][1]
             nested_value == value.kv[i][2]
             n1 == IF ~HasKey(normalized, nested_key) /\ ~IsContainer(nested_value)
                   THEN SetKey(normalized, nested_key, nested_value) ELSE normalized
             n2 == IF key = "user" /\ nested_key = "profile" /\ IsDict(nested_value)
                   THEN CopyMissing(n1, nested_value, 1, FALSE) ELSE n1
         IN FlattenNestedLoop(n2, key, value, i + 1)

flatten_nested_object(normalized, key, value) ==
    FlattenNestedLoop(SetKey(normalized, key, value), key, value, 1)

\* the loop over the items of a wrapper dict, from position i on
RECURSIVE WrapperLoop(_, _, _)
WrapperLoop(normalized, value, i) ==
    IF i > Len(value.kv) THEN normalized
    ELSE LET inner_key == value.kv[i][1]
             inner_value == value.kv[i][2]
         IN WrapperLoop(IF inner_key \in flatten_and_keep_keys /\ IsDict(inner_value)
                        THEN flatten_nested_object(normalized, inner_key, inner_value)
                        ELSE IF ~HasKey(normalized, inner_key)
                             THEN SetKey(normalized, inner_key, inner_value)
                             ELSE normalized,
                        value, i + 1)

\* the loop over item.items(), from position i on
RECURSIVE NormalizeLoop(_, _, _)
NormalizeLoop(normalized, item, i) ==
    IF i > Len(item.kv) THEN normalized
    ELSE LET key == item.kv[i][1]
             value == item.kv[i][2]
         IN NormalizeLoop(
              IF key \in wrapper_keys /\ IsDict(value)
              THEN WrapperLoop(SetKey(normalized, key, value), value, 1)
              ELSE IF key \in wrapper_keys /\ IsList(value) /\ value.xs # <<>>
              THEN IF IsDict(value.xs[1])
                   THEN CopyMissing(SetKey(normalized, key, value), value.xs[1], 1, TRUE)
                   ELSE SetKey(normalized, key, value)
              ELSE IF key \in flatten_and_keep_keys /\ IsDict(value)
              THEN flatten_nested_object(normalized, key, value)
              ELSE SetKey(normalized, key, value),
              item, i + 1)

normalize_for_context(item) ==
    IF ~Truthy(item) \/ ~IsDict(item)
    THEN IF item # Null THEN Map(<< <<"value", item>> >>) ELSE Map(<<>>)
    ELSE NormalizeLoop(Map(<<>>), item, 1)

(***************************************************************************)
(* json.loads, for the JSON texts of the model: objects, arrays, strings   *)
(* with the simple backslash escapes, integers, true, false and null.      *)
(* A parse step returns [ok, v, next]: success, the value, the position    *)
(* after it.                                                               *)
(***************************************************************************)
ParseFail == [ok |-> FALSE, v |-> Null, next |-> 0]

ParseOk(v, next) == [ok |-> TRUE, v |-> v, next |-> next]

RECURSIVE SkipWs(_, _)
SkipWs(s, i) == IF i <= Len(s) /\ Char(s, i) \in Whitespace THEN SkipWs(s, i + 1) ELSE i

\* the characters of a JSON string from position i (after the opening quote)
\* up to the closing quote; v is the decoded text
RECURSIVE ParseStringBody(_, _, _)
ParseStringBody(s, i, acc) ==
    IF i > Len(s) THEN ParseFail
    ELSE LET c == Char(s, i) IN
         IF c = "\"" THEN ParseOk(acc, i + 1)
         ELSE IF c \in {"\n", "\t", "\r"} THEN ParseFail
         ELSE IF c = "\\"
         THEN IF i + 1 > Len(s) THEN ParseFail
              ELSE LET e == Char(s, i + 1) IN
                   IF e \in {"\"", "\\", "/"} THEN ParseStringBody(s, i + 2, acc \o e)
                   ELSE IF e = "n" THEN ParseStringBody(s, i + 2, acc \o "\n")
                   ELSE IF e = "t" THEN ParseStringBody(s, i + 2, acc \o "\t")
                   ELSE IF e = "r" THEN ParseStringBody(s, i + 2, acc \o "\r")
                   ELSE ParseFail
         ELSE ParseStringBody(s, i + 1, acc \o c)

\* -? (0 | [1-9][0-9]*), with no fraction or exponent after it
ParseNumber(s, i) ==
    LET neg == Char(s, i) = "-"
        d == IF neg THEN i + 1 ELSE i
        e == DigitRunEnd(s, d)
    IN IF e < d THEN ParseFail
       ELSE IF Char(s, d) = "0" /\ e > d THEN ParseOk(Num(0), d + 1)
       ELSE IF e < Len(s) /\ Char(s, e + 1) \in {".", "e", "E"} THEN ParseFail
       ELSE ParseOk(Num(IF neg THEN 0 - DigitsVal(SubSeq(s, d, e))
                               ELSE DigitsVal(SubSeq(s, d, e))), e + 1)

RECURSIVE ParseValue(_, _)
RECURSIVE ParseMembers(_, _, _)
RECURSIVE ParseElements(_, _, _)
\* the members of an object from position i (after "{" or ","): acc holds
\* the members read so far; a repeated key keeps its place and takes the
\* last value
ParseMembers(s, i, acc) ==
    LET k == SkipWs(s, i) IN
    IF k > Len(s) \/ Char(s, k) # "\"" THEN ParseFail
    ELSE LET key == ParseStringBody(s, k + 1, "") IN
         IF ~key.ok THEN ParseFail
         ELSE LET c == SkipWs(s, key.next) IN
              IF c > Len(s) \/ Char(s, c) # ":" THEN ParseFail
              ELSE LET val == ParseValue(s, SkipWs(s, c + 1)) IN
                   IF ~val.ok THEN ParseFail
                   ELSE LET n == SkipWs(s, val.next)
                            acc2 == SetKey(acc, key.v, val.v)
                        IN IF n > Len(s) THEN ParseFail
                           ELSE IF Char(s, n) = "}" THEN ParseOk(acc2, n + 1)
                           ELSE IF Char(s, n) = "," THEN ParseMembers(s, n + 1, acc2)
                           ELSE ParseFail

ParseElements(s, i, acc) ==
    LET val == ParseValue(s, SkipWs(s, i)) IN
    IF ~val.ok THEN ParseFail
    ELSE LET n == SkipWs(s, val.next)
             acc2 == Append(acc, val.v)
         IN IF n > Len(s) THEN ParseFail
            ELSE IF Char(s, n) = "]" THEN ParseOk(List(acc2), n + 1)
            ELSE IF Char(s, n) = "," THEN ParseElements(s, n + 1, acc2)
            ELSE ParseFail

ParseValue(s, i) ==
    IF i > Len(s) THEN ParseFail
    ELSE LET c == Char(s, i) IN
         IF c = "{"
         THEN LET k == SkipWs(s, i + 1) IN
              IF k <= Len(s) /\ Char(s, k) = "}" THEN ParseOk(Map(<<>>), k + 1)
              ELSE ParseMembers(s, i + 1, Map(<<>>))
         ELSE IF c = "["
         THEN LET k == SkipWs(s, i + 1) IN
              IF k <= Len(s) /\ Char(s, k) = "]" THEN ParseOk(List(<<>>), k + 1)
              ELSE ParseElements(s, i + 1, <<>>)
         ELSE IF c = "\""
         THEN LET r == ParseStringBody(s, i + 1, "") IN
              IF r.ok THEN ParseOk(Str(r.v), r.next) ELSE ParseFail
         ELSE IF c = "-" \/ c \in Digits THEN ParseNumber(s, i)
         ELSE IF OccursAt(s, "true", i) THEN ParseOk(Bool(TRUE), i + 4)
         ELSE IF OccursAt(s, "false", i) THEN ParseOk(Bool(FALSE), i + 5)
         ELSE IF OccursAt(s, "null", i) THEN ParseOk(Null, i + 4)
         ELSE ParseFail

\* json.loads(text): [ok |-> TRUE, v |-> document], or [ok |-> FALSE] for
\* JSONDecodeError
json_loads(text) ==
    LET Whole(r) == IF r.ok /\ SkipWs(text, r.next) = Len(text) + 1 THEN r ELSE ParseFail
    IN Whole(ParseValue(text, SkipWs(text, 1)))

(***************************************************************************)
(* executor.py: extract_json_from_string                                   *)
(***************************************************************************)
\* The backquote of a Markdown code fence cannot be written in a TLA+ string;
\* the texts of the model write it as ~.
Fence == "~~~"

\* re.findall(code_block_pattern, text) from position from on: a fence of
\* three backquotes, an optional "json", whitespace, the shortest text up to
\* the next fence; the texts between the fences, left to right
RECURSIVE CodeBlocks(_, _)
CodeBlocks(text, from) ==
    LET opens == {i \in from..Len(text) :
                    /\ OccursAt(text, Fence, i)
                    /\ Find(text, Fence,
                            SkipWs(text, IF OccursAt(text, "json", i + 3)
                                         THEN i + 7 ELSE i + 3)) # 0}
    IN IF from > Len(text) \/ opens = {} THEN <<>>
       ELSE LET i == CHOOSE o \in opens : \A j \in opens : o <= j
                b == SkipWs(text, IF OccursAt(text, "json", i + 3) THEN i + 7 ELSE i + 3)
                c == Find(text, Fence, b)
            IN <<SubSeq(text, b, c - 1)>> \o CodeBlocks(text, c + 3)

\* the first text of the sequence that json.loads accepts, parsed
RECURSIVE FirstParse(_, _)
FirstParse(texts, i) ==
    LET Try(r) == IF r.ok THEN r ELSE FirstParse(texts, i + 1)
    IN IF i > Len(texts) THEN ParseFail ELSE Try(json_loads(texts[i]))

\* re.findall of the greedy object pattern (an open brace, anything, a close
\* brace) and of the array pattern: the text from the first open to the last
\* close, when the close comes after the open
Greedy(text, open, close) ==
    IF Find(text, open, 1) # 0 /\ RFind(text, close) > Find(text, open, 1)
    THEN <<SubSeq(text, Find(text, open, 1), RFind(text, close))>>
    ELSE <<>>

extract_json_from_string(d) ==
    IF ~IsStr(d) THEN d
    ELSE LET Stripped(blocks) == [i \in 1..Len(blocks) |-> Strip(blocks[i])]
             \* direct parse, then the code blocks, then the greedy patterns
             Patterns(text, r) == IF r.ok THEN r.v ELSE Str(text)
             Blocks(text, r) ==
                 IF r.ok THEN r.v
                 ELSE Patterns(text, FirstParse(Greedy(text, "{", "}")
                                                  \o Greedy(text, "[", "]"), 1))
             Direct(text, r) ==
                 IF r.ok THEN r.v
                 ELSE Blocks(text, FirstParse(Stripped(CodeBlocks(text, 1)), 1))
             Stage(text) == Direct(text, json_loads(text))
         IN Stage(Strip(d.s))

(***************************************************************************)
(* executor.py: the pure parts of execute_tool and execute_automation      *)
(***************************************************************************)
USAGE_LIMIT_ERROR == "USAGE_LIMIT_EXCEEDED"

timeout_per_action == 30

\* the f-string of the float timeout: 30.0
TimeoutMessage == "Tool execution timed out after " \o ToString(timeout_per_action) \o ".0s"

is_usage_limit_error(output) ==
    IsDict(output) /\ Get(output, "error") = Str(USAGE_LIMIT_ERROR)

\* execute_tool, from the handler's result to the returned tuple
\* (success, output, error_message)
ToolOutcome(success, output, error) == [success |-> success, output |-> output, error |-> error]

classify_result(result) ==
    LET Parsed(r) == IF r.ok THEN ToolOutcome(TRUE, r.v, Null)
                     ELSE ToolOutcome(TRUE, result, Null)
    IN IF IsStr(result) /\ StartsWith(result.s, "Error:")
       THEN ToolOutcome(FALSE, Null, result)
       ELSE IF IsStr(result) THEN Parsed(json_loads(result.s))
       ELSE ToolOutcome(TRUE, result, Null)

\* (variant) a name the parameters already hold keeps the action's value
inject_parameters_setdefault(parameters, user_id, request_id) ==
    LET Default(d, k, v) == IF HasKey(d, k) THEN d ELSE SetKey(d, k, v)
        p1 == Default(parameters, "user_id", user_id)
        p2 == IF Truthy(request_id) THEN Default(p1, "request_id", request_id) ELSE p1
    IN Default(p2, "is_automation", Bool(TRUE))

\* parameters['user_id'] = user_id; if request_id: parameters['request_id'] =
\* request_id; parameters['is_automation'] = True
inject_parameters(parameters, user_id, request_id) ==
    LET p1 == SetKey(parameters, "user_id", user_id)
        p2 == IF Truthy(request_id) THEN SetKey(p1, "request_id", request_id) ELSE p1
    IN SetKey(p2, "is_automation", Bool(TRUE))

\* user_dict of execute_automation
user_dict_of(user_info) ==
    LET d1 == Map(<< <<"id", user_info.id>>, <<"email", user_info.email>>,
                     <<"timezone", user_info.timezone>> >>)
        d2 == IF Truthy(user_info.phone) THEN SetKey(d1, "phone", user_info.phone) ELSE d1
    IN IF Truthy(user_info.name) THEN SetKey(d2, "name", user_info.name) ELSE d2

\* (variant) the reserved keys are written before trigger_data is spread
initial_context_reserved_first(trigger_data, user_dict, variables) ==
    Spread(Spread(SetKey(SetKey(Map(<<>>), "user", user_dict), "trigger_data", trigger_data),
                  trigger_data),
           variables)

\* {**trigger_data, 'user': user_dict, 'trigger_data': trigger_data, **variables}
initial_context(trigger_data, user_dict, variables) ==
    Spread(SetKey(SetKey(trigger_data, "user", user_dict), "trigger_data", trigger_data),
           variables)

\* (variant) the synthesized id counts from one
action_id_of_one_based(action, n) ==
    PyOr(Get(action, "action_id"), GetOr(action, "id", Str("action_" \o ToString(n + 1))))

\* action.get('action_id') or action.get('id', f"action_{len(action_results)}")
action_id_of(action, n) ==
    PyOr(Get(action, "action_id"), GetOr(action, "id", Str("action_" \o ToString(n))))

\* action.get('params') or action.get('parameters', {})
parameters_of(action) ==
    PyOr(Get(action, "params"), GetOr(action, "parameters", Map(<<>>)))

ActionResult(action_id, tool, success, output, error, skipped, condition_result) ==
    [action_id |-> action_id, tool |-> tool, success |-> success, output |-> output,
     error |-> error, skipped |-> skipped, condition_result |-> condition_result]

\* condition_result=True if condition else None
condition_result_of(condition) == IF Truthy(condition) THEN Bool(TRUE) ELSE Null

\* (variant) a skipped action is recorded as a failure
skipped_result_as_failure(action_id, tool_name) ==
    ActionResult(action_id, tool_name, FALSE, Null, Null, TRUE, Bool(FALSE))

skipped_result(action_id, tool_name) ==
    ActionResult(action_id, tool_name, TRUE, Null, Null, TRUE, Bool(FALSE))

success_result(action_id, tool_name, output, condition) ==
    ActionResult(action_id, tool_name, TRUE, output, Null, FALSE, condition_result_of(condition))

failure_result(action_id, tool_name, error, condition) ==
    ActionResult(action_id, tool_name, FALSE, Null, error, FALSE, condition_result_of(condition))

usage_limit_result(action_id, tool_name, output, condition) ==
    failure_result(action_id, tool_name,
                   Str("Usage limit exceeded: "
                       \o py_str(GetOr(output, "message", Str("Usage limit reached")))),
                   condition)

\* the value stored under output_as: JSON extracted from a string, a dict
\* normalized, anything else as it is
normalized_output_of(output) ==
    LET Normalized(processed_output) ==
            IF IsDict(processed_output) THEN normalize_for_context(processed_output)
            ELSE processed_output
    IN Normalized(IF IsStr(output) THEN extract_json_from_string(output) ELSE output)

\* (variant) a name that is already bound keeps its first value
bind_output_keeps_first(context, output_as, output) ==
    IF Truthy(output_as) /\ ~HasKey(context, output_as.s)
    THEN SetKey(context, output_as.s, normalized_output_of(output))
    ELSE context

\* if output_as: context[output_as] = normalized_output
bind_output(context, output_as, output) ==
    IF Truthy(output_as) THEN SetKey(context, output_as.s, normalized_output_of(output))
    ELSE context

\* (variant) the output is bound before success is looked at
context_after_tool_binds_always(context, output_as, success, output) ==
    bind_output(context, output_as, output)

\* the context after execute_tool returned without a usage-limit result:
\* only the success branch assigns to it
context_after_tool(context, output_as, success, output) ==
    IF success THEN bind_output(context, output_as, output) ELSE context

\* (variant) the comparison of the two counters is not strict
classify_status_inclusive(actions_failed, actions_executed) ==
    IF actions_failed = 0 THEN <<"completed", TRUE>>
    ELSE IF actions_failed <= actions_executed THEN <<"partial_failure", TRUE>>
    ELSE <<"failed", FALSE>>

\* the final classification: <<status, success>>
classify_status(actions_failed, actions_executed) ==
    IF actions_failed = 0 THEN <<"completed", TRUE>>
    ELSE IF actions_failed < actions_executed THEN <<"partial_failure", TRUE>>
    ELSE <<"failed", FALSE>>

\* '; '.join(errors) if errors else None
RECURSIVE JoinErrors(_, _)
JoinErrors(errors, i) ==
    IF i > Len(errors) THEN ""
    ELSE (IF i > 1 THEN "; " ELSE "") \o errors[i] \o JoinErrors(errors, i + 1)

error_summary_of(errors) == IF errors = <<>> THEN Null ELSE Str(JoinErrors(errors, 1))

ExecutionResult(success, status, executed, failed, results, error_summary) ==
    [success |-> success, status |-> status, actions_executed |-> executed,
     actions_failed |-> failed, action_results |-> results,
     error_summary |-> error_summary]

(***************************************************************************)
(* validation.py: the path check of the polling preflight                  *)
(***************************************************************************)
\* (False, None)
NotFound == [found |-> FALSE, value |-> Null]

\* (True, value)
Found(value) == [found |-> TRUE, value |-> value]

\* path without its trigger_data. prefix
StripTriggerData(path) ==
    IF StartsWith(path, "trigger_data.")
    THEN SubSeq(path, Len("trigger_data.") + 1, Len(path))
    ELSE path

\* the for loop of the get_nested_value of validation.py, from part i on
RECURSIVE FindParts(_, _, _)
FindParts(current, parts, i) ==
    IF i > Len(parts) THEN Found(current)
    ELSE IF current = Null THEN NotFound
    ELSE LET part == parts[i] IN
         IF IsDigit(part)
         THEN \* idx = int(part)
              IF ~IsDecimal(part) THEN ValueError
              ELSE IF IsList(current) /\ IntOf(part) < Len(current.xs)
              THEN FindParts(current.xs[IntOf(part) + 1], parts, i + 1)
              ELSE IF IsDict(current) /\ HasKey(current, part)
              THEN FindParts(Get(current, part), parts, i + 1)
              ELSE NotFound
         ELSE IF IsDict(current) /\ HasKey(current, part)
              THEN FindParts(Get(current, part), parts, i + 1)
              ELSE NotFound

\* the get_nested_value of validation.py: found and value, or ValueError
validation_get_nested_value(data, path) ==
    IF data = Null THEN NotFound
    ELSE FindParts(data, Split(StripTriggerData(BracketRewrite(path)), "."), 1)

\* type(d).__name__
TypeName(d) ==
    CASE d.t = "null" -> "NoneType"
      [] d.t = "bool" -> "bool"
      [] d.t = "num"  -> "int"
      [] d.t = "str"  -> "str"
      [] d.t = "list" -> "list"
      [] d.t = "map"  -> "dict"

\* list(d.keys())[:5]
FirstKeys(d) ==
    List([i \in 1..(IF Len(d.kv) < 5 THEN Len(d.kv) ELSE 5) |-> Str(d.kv[i][1])])

\* the hint about the shape of the sample that ends each message
Hint(sample_output) ==
    IF IsDict(sample_output)
    THEN "Available top-level keys: " \o py_repr(FirstKeys(sample_output))
    ELSE IF IsList(sample_output) /\ sample_output.xs # <<>>
    THEN IF IsDict(sample_output.xs[1])
         THEN "Output is an array. First item keys: "
                \o py_repr(FirstKeys(sample_output.xs[1]))
                \o ". Use '0.' prefix for array access."
         ELSE "Output is an array of " \o TypeName(sample_output.xs[1])
    ELSE "Output type: " \o TypeName(sample_output)

\* a list of messages whose order is that of a Python set: the set of them
Messages(texts) == [t |-> "messages", texts |-> texts]

\* the messages for the paths that are not found, or ValueError when the
\* check of a path raises it
validate_paths_against_output(paths, sample_output) ==
    IF \E p \in paths : validation_get_nested_value(sample_output, p) = ValueError
    THEN ValueError
    ELSE Messages({"Path '" \o p \o "' not found in source tool output. "
                     \o Hint(sample_output) :
                   p \in {q \in paths :
                            ~validation_get_nested_value(sample_output, q).found}})

(***************************************************************************)
(* validation.py: the polling preflight                                    *)
(***************************************************************************)
\* template_pattern.findall(s) from position i on: two open braces,
\* trigger_data and a dot, one or more characters other than a close brace,
\* two close braces; the texts between the braces
RECURSIVE TriggerDataMatches(_, _)
TriggerDataMatches(s, i) ==
    LET body == i + Len("{{trigger_data.")
        last == BodyRunEnd(s, body)
    IN IF i > Len(s) THEN {}
       ELSE IF /\ OccursAt(s, "{{trigger_data.", i)
               /\ last >= body
               /\ OccursAt(s, "}}", last + 1)
       THEN {SubSeq(s, i + 2, last)} \cup TriggerDataMatches(s, last + 3)
       ELSE TriggerDataMatches(s, i + 1)

RECURSIVE extract_from_value(_)
extract_from_value(value) ==
    IF IsStr(value) THEN TriggerDataMatches(value.s, 1)
    ELSE IF IsDict(value)
    THEN UNION {extract_from_value(value.kv[i][2]) : i \in 1..Len(value.kv)}
    ELSE IF IsList(value)
    THEN UNION {extract_from_value(value.xs[i]) : i \in 1..Len(value.xs)}
    ELSE {}

\* the path when it starts with trigger_data.
TriggerDataPath(path) ==
    IF IsStr(path) /\ StartsWith(path.s, "trigger_data.") THEN {path.s} ELSE {}

\* the conditions given are None or mappings whose paths are texts and whose
\* clauses are mappings
extract_from_condition(condition) ==
    IF ~Truthy(condition) THEN {}
    ELSE (IF HasKey(condition, "path") THEN TriggerDataPath(Get(condition, "path"))
          ELSE {})
         \cup (IF HasKey(condition, "clauses")
               THEN UNION {TriggerDataPath(GetOr(Get(condition, "clauses").xs[i], "path",
                                                 Str(""))) :
                             i \in 1..Len(Get(condition, "clauses").xs)}
               ELSE {})

\* what one action contributes
ActionPaths(action) ==
    (IF HasKey(action, "condition") THEN extract_from_condition(Get(action, "condition"))
     ELSE {})
    \cup (IF HasKey(action, "parameters") THEN extract_from_value(Get(action, "parameters"))
          ELSE {})

extract_trigger_data_paths(actions, trigger_config) ==
    UNION {ActionPaths(actions[i]) : i \in 1..Len(actions)}
      \cup (IF HasKey(trigger_config, "filter")
            THEN extract_from_condition(Get(trigger_config, "filter")) ELSE {})
      \cup (IF HasKey(trigger_config, "filters")
            THEN extract_from_condition(Get(trigger_config, "filters")) ELSE {})

\* What the handler of the source tool does when it is called: it raises an
\* exception with this text, it does not end within the 30 seconds, or it
\* returns this value.
HandlerRaises(text) == [kind |-> "raise", text |-> text]

HandlerHangs == [kind |-> "timeout"]

HandlerReturns(value) == [kind |-> "return", value |-> value]

\* {'success': True, 'output': output}
TestOk(output) == [success |-> TRUE, output |-> output]

\* {'success': False, 'error': error}
TestFailed(error) == [success |-> FALSE, error |-> error]

\* test_polling_source_tool, for a tool that the registry has and whose
\* handler does this
test_polling_source_tool(tool_name, handler) ==
    CASE handler.kind = "timeout" ->
           TestFailed("Tool '" \o tool_name \o "' timed out after 30s")
      [] handler.kind = "raise" ->
           TestFailed("Tool execution failed: " \o handler.text)
      [] handler.kind = "return" ->
           IF IsStr(handler.value) /\ StartsWith(handler.value.s, "Error:")
           THEN TestFailed(handler.value.s)
           ELSE IF IsStr(handler.value) /\ json_loads(handler.value.s).ok
           THEN TestOk(json_loads(handler.value.s).v)
           ELSE TestOk(handler.value)

\* One message of the preflight.  The two warnings end with list(paths), the
\* paths in the order of a Python set: the model keeps the text before the
\* list and the set of the paths listed.
Message(text, paths) == [text |-> text, paths |-> paths]

\* (is_valid, errors, sample_output) and whether the handler of the source
\* tool was called; errors is kept as the set of its messages
PreflightResult(is_valid, messages, sample_output, called) ==
    [ok |-> is_valid, errors |-> messages, sample_output |-> sample_output,
     called |-> called]

\* (variant) paths that could not be verified block the deployment
UnverifiedBlocks(message) == PreflightResult(FALSE, {message}, Null, TRUE)

\* the return with a warning when the paths could not be verified
Unverified(message) == PreflightResult(TRUE, {message}, Null, TRUE)

\* sample_output[:100]
First100(s) == SubSeq(s, 1, IF Len(s) < 100 THEN Len(s) ELSE 100)

\* the part of the preflight that follows the call of the source tool
CheckSample(source_tool, paths, test_result) ==
    IF ~test_result.success
    THEN Unverified(Message("Warning: Could not validate trigger_data paths - "
                              \o "source_tool test returned: " \o test_result.error
                              \o ". Paths to validate: ", paths))
    ELSE IF IsStr(test_result.output)
    THEN Unverified(Message("Warning: source_tool returned a message instead of data: '"
                              \o First100(test_result.output.s)
                              \o "'. Cannot validate paths: ", paths))
    ELSE LET Checked(path_errors) ==
               IF path_errors = ValueError THEN ValueError
               ELSE IF path_errors.texts # {}
               THEN PreflightResult(FALSE,
                                    {Message("Path validation error: " \o err, {}) :
                                       err \in path_errors.texts},
                                    test_result.output, TRUE)
               ELSE PreflightResult(TRUE, {}, test_result.output, TRUE)
         IN Checked(validate_paths_against_output(paths, test_result.output))

\* registry: the names of the tools of the user's registry; handler: what
\* the handler of the source tool does if it is called.  The result, or
\* ValueError when the check of a path raises it.
preflight_validate_polling_automation(trigger_config, actions, registry, handler) ==
    LET source_tool == Get(trigger_config, "source_tool") IN
    IF ~Truthy(source_tool)
    THEN PreflightResult(FALSE,
                         {Message("Polling automation missing 'source_tool' in trigger_config",
                                  {})},
                         Null, FALSE)
    ELSE IF source_tool.s \notin registry
    THEN PreflightResult(FALSE,
                         {Message("source_tool '" \o source_tool.s
                                    \o "' not found in registry", {})},
                         Null, FALSE)
    ELSE IF extract_trigger_data_paths(actions, trigger_config) = {}
    THEN PreflightResult(TRUE, {}, Null, FALSE)
    ELSE CheckSample(source_tool.s, extract_trigger_data_paths(actions, trigger_config),
                     test_polling_source_tool(source_tool.s, handler))

(***************************************************************************)
(* Inputs of one run of execute_automation                                 *)
(***************************************************************************)
MaxActions == 2

user_id == Str("u1")

user_info ==
    [id |-> Str("u1"), email |-> Str("u1@example.com"), timezone |-> Str("UTC"),
     phone |-> Null, name |-> Str("Ann")]

\* publishes k1, no id, no condition
ActFetch ==
    Map(<< <<"tool", Str("fetch")>>,
           <<"params", Map(<< <<"q", Str("{{k1.score}}")>> >>)>>,
           <<"output_as", Str("k1")>> >>)

\* gated on the published k1, explicit id, publishes k2
ActSend ==
    Map(<< <<"id", Str("second")>>,
           <<"tool", Str("send")>>,
           <<"condition", Map(<< <<"path", Str("k1.score")>>, <<"op", Str(">")>>,
                                 <<"value", Str("{{limit}}")>> >>)>>,
           <<"parameters", Map(<< <<"msg", Str("Score {{k1.score}}")>>,
                                  <<"to", List(<<Str("{{user.email}}")>>)>> >>)>>,
           <<"output_as", Str("k2")>> >>)

\* gated on a composition, publishes under the name user; its parameters
\* name the reserved fields, one of them through a template
ActLog ==
    Map(<< <<"tool", Str("log")>>,
           <<"parameters", Map(<< <<"user_id", Str("{{k1.owner}}")>>,
                                  <<"request_id", Str("forged")>>,
                                  <<"is_automation", Bool(FALSE)>> >>)>>,
           <<"condition",
             Map(<< <<"operator", Str("or")>>,
                    <<"clauses", List(<<
                        Map(<< <<"path", Str("k2")>>, <<"op", Str("exists")>> >>),
                        Map(<< <<"path", Str("k1.data.score")>>, <<"op", Str("==")>>,
                               <<"value", Num(85)>> >>) >>)>> >>)>>,
           <<"output_as", Str("user")>> >>)

\* no tool name
ActNoTool == Map(<< <<"params", Map(<<>>)>>, <<"output_as", Str("k1")>> >>)

\* parameters that are not a mapping
ActListParams == Map(<< <<"tool", Str("fetch")>>, <<"params", List(<<Str("x")>>)>> >>)

\* a condition that is not a mapping
ActBadCondition == Map(<< <<"tool", Str("fetch")>>, <<"condition", Str("always")>> >>)

ActionPool == {ActFetch, ActSend, ActLog, ActNoTool, ActListParams, ActBadCondition}

RECURSIVE SeqsUpTo(_, _)
SeqsUpTo(S, n) ==
    IF n = 0 THEN {<<>>}
    ELSE SeqsUpTo(S, n - 1)
         \cup {Append(q, x) : q \in {r \in SeqsUpTo(S, n - 1) : Len(r) = n - 1}, x \in S}

TriggerPool ==
    {Map(<<>>),
     Map(<< <<"k1", Map(<< <<"score", Num(70)>> >>)>>, <<"user", Str("U42")>> >>)}

VariablesPool == {Map(<< <<"limit", Num(50)>> >>)}

AutomationIdPool == {Null, Str("auto-1")}

RequestIdPool == {Str("req-1")}

\* what a handler (or the coroutine or callable it returned) can hand back
ResultPool ==
    {Map(<< <<"data", Map(<< <<"score", Num(85)>> >>)>> >>),
     Str("Result: {\"score\": 40}"),
     Null,
     Str("Error: boom"),
     Str("{\"error\": \"USAGE_LIMIT_EXCEEDED\", \"service\": \"sms\", \"message\": \"cap\"}"),
     Map(<< <<"error", Str(USAGE_LIMIT_ERROR)>> >>)}

\* str(e) of the exception a handler raises
HandlerErrorText == "boom"

(***************************************************************************)
(* State of one run                                                        *)
(***************************************************************************)
VARIABLES
    actions,            \* the action list of the spec
    variables,          \* user-defined variables
    trigger_data,       \* the trigger payload
    has_notifier,       \* a notification_handler was passed
    automation_id,      \* automation_id, or None
    request_id,         \* request_id, or None
    context,            \* the execution context
    action_results,     \* the ActionResult list
    actions_executed,
    actions_failed,
    errors,             \* the texts joined into error_summary
    idx,                \* position (from 1) of the action the loop is at
    pc,                 \* where the coroutine is: "loop", "lookup", "sync_call",
                        \* "await", "notify", "done", "raised", "hung"
    cur,                \* the locals of the action in flight
    result,             \* the returned ExecutionResult
    evaluated,          \* positions whose condition has been evaluated
    looked_up,          \* positions for which execute_tool was entered
    invocations,        \* the handler calls made: position and tool_input
    notified,           \* calls of notify_usage_limit_exceeded made
    tool_outcomes,      \* what execute_tool returned, call by call
    probe,              \* one call of a function of the package made on its
                        \* own, outside a run: its name, arguments and result
    fetched_tool_schemas,   \* AgentContext.fetched_tool_schemas of the authoring
    automation_records      \* the automations that the storage holds

vars == <<actions, variables, trigger_data, has_notifier, automation_id, request_id,
          context, action_results, actions_executed, actions_failed, errors, idx, pc,
          cur, result, evaluated, looked_up, invocations, notified,
          tool_outcomes, probe, fetched_tool_schemas, automation_records>>

\* the state of the authoring
authoring == <<fetched_tool_schemas, automation_records>>

\* what a run leaves alone
aside == <<probe, authoring>>

inputs == <<actions, variables, trigger_data, has_notifier, automation_id, request_id>>

NoCur ==
    [action_id |-> Null, tool_name |-> Null, condition |-> Null, output_as |-> Null,
     params |-> Map(<<>>), kind |-> "none", timer |-> FALSE, output |-> Null]

NoResult == ExecutionResult(FALSE, "running", 0, 0, <<>>, Null)

NoProbe == [fn |-> "none"]

Init ==
    /\ actions \in SeqsUpTo(ActionPool, MaxActions)
    /\ variables \in VariablesPool
    /\ trigger_data \in TriggerPool
    /\ has_notifier \in BOOLEAN
    /\ automation_id \in AutomationIdPool
    /\ request_id \in RequestIdPool
    /\ context = initial_context(trigger_data, user_dict_of(user_info), variables)
    /\ action_results = <<>>
    /\ actions_executed = 0
    /\ actions_failed = 0
    /\ errors = <<>>
    /\ idx = 1
    /\ pc = "loop"
    /\ cur = NoCur
    /\ result = NoResult
    /\ evaluated = {}
    /\ looked_up = {}
    /\ invocations = <<>>
    /\ notified = 0
    /\ tool_outcomes = <<>>
    /\ probe = NoProbe
    /\ fetched_tool_schemas = Map(<<>>)
    /\ automation_records = <<>>

(***************************************************************************)
(* execute_automation: the head of the loop body                           *)
(***************************************************************************)
InLoop == pc = "loop" /\ idx <= Len(actions)

\* the outcome of the gate of action a: the condition is evaluated only when
\* it is truthy
Gate(a) ==
    IF Truthy(Get(a, "condition")) THEN evaluate_condition(Get(a, "condition"), context)
    ELSE "true"

Evaluated(a) == IF Truthy(Get(a, "condition")) THEN evaluated \cup {idx} ELSE evaluated

\* evaluate_condition raises: the exception leaves execute_automation
ConditionRaises ==
    /\ InLoop
    /\ Gate(actions[idx]) = "raise"
    /\ evaluated' = Evaluated(actions[idx])
    /\ pc' = "raised"
    /\ UNCHANGED <<inputs, aside, context, action_results, actions_executed, actions_failed,
                   errors, idx, cur, result, looked_up, invocations, notified,
                   tool_outcomes>>

\* (variant) a skipped action leaves no ActionResult
SkipActionUnrecorded ==
    /\ InLoop
    /\ Gate(actions[idx]) = "false"
    /\ evaluated' = Evaluated(actions[idx])
    /\ idx' = idx + 1
    /\ UNCHANGED <<inputs, aside, context, action_results, actions_executed, actions_failed,
                   errors, pc, cur, result, looked_up, invocations, notified,
                   tool_outcomes>>

\* the condition is false: the action is skipped
SkipAction ==
    /\ InLoop
    /\ Gate(actions[idx]) = "false"
    /\ evaluated' = Evaluated(actions[idx])
    /\ action_results' =
         Append(action_results,
                skipped_result(action_id_of(actions[idx], Len(action_results)),
                               Get(actions[idx], "tool")))
    /\ idx' = idx + 1
    /\ UNCHANGED <<inputs, aside, context, actions_executed, actions_failed, errors, pc, cur,
                   result, looked_up, invocations, notified,
                   tool_outcomes>>

\* resolve_parameters raises: the exception leaves execute_automation
ParametersRaise ==
    /\ InLoop
    /\ Gate(actions[idx]) = "true"
    /\ resolve_parameters_raises(parameters_of(actions[idx]), context)
    /\ evaluated' = Evaluated(actions[idx])
    /\ pc' = "raised"
    /\ UNCHANGED <<inputs, aside, context, action_results, actions_executed, actions_failed,
                   errors, idx, cur, result, looked_up, invocations, notified,
                   tool_outcomes>>

\* the gate passes: parameters are resolved and execute_tool awaits the
\* registry lookup
StartTool ==
    /\ InLoop
    /\ Gate(actions[idx]) = "true"
    /\ ~resolve_parameters_raises(parameters_of(actions[idx]), context)
    /\ evaluated' = Evaluated(actions[idx])
    /\ cur' = [NoCur EXCEPT
                 !.action_id = action_id_of(actions[idx], Len(action_results)),
                 !.tool_name = Get(actions[idx], "tool"),
                 !.condition = Get(actions[idx], "condition"),
                 !.output_as = Get(actions[idx], "output_as"),
                 !.params = resolve_parameters(parameters_of(actions[idx]), context)]
    /\ looked_up' = looked_up \cup {idx}
    /\ pc' = "lookup"
    /\ UNCHANGED <<inputs, aside, context, action_results, actions_executed, actions_failed,
                   errors, idx, result, invocations, notified,
                   tool_outcomes>>

(***************************************************************************)
(* execute_automation: after execute_tool returned                         *)
(***************************************************************************)
\* (variant) the usage-limit branch records the failure and goes on with the
\* loop
QuotaReturnContinues(output, executed) ==
    /\ action_results' =
         Append(action_results,
                usage_limit_result(cur.action_id, cur.tool_name, output, cur.condition))
    /\ actions_executed' = executed
    /\ actions_failed' = actions_failed + 1
    /\ idx' = idx + 1
    /\ pc' = "loop"
    /\ cur' = NoCur
    /\ UNCHANGED <<inputs, aside, context, errors, result, evaluated, looked_up, invocations>>

\* the usage-limit return: the action is recorded as failed and the run ends
QuotaReturn(output, executed) ==
    /\ action_results' =
         Append(action_results,
                usage_limit_result(cur.action_id, cur.tool_name, output, cur.condition))
    /\ result' =
         ExecutionResult(FALSE, "usage_limit_exceeded", executed, 1, action_results',
                         Str("Usage limit exceeded for "
                             \o py_str(GetOr(output, "service", Str("unknown")))))
    /\ actions_executed' = executed
    /\ pc' = "done"
    /\ cur' = NoCur
    /\ UNCHANGED <<inputs, aside, context, actions_failed, errors, idx, evaluated, looked_up,
                   invocations>>

\* (variant) the failure branch returns a failed ExecutionResult at once
RecordOutcomeHaltsOnFailure(o) ==
    /\ context' = context_after_tool(context, cur.output_as, o.success, o.output)
    /\ action_results' =
         Append(action_results,
                IF o.success
                THEN success_result(cur.action_id, cur.tool_name, o.output, cur.condition)
                ELSE failure_result(cur.action_id, cur.tool_name, o.error, cur.condition))
    /\ actions_failed' = IF o.success THEN actions_failed ELSE actions_failed + 1
    /\ errors' = IF o.success THEN errors
                 ELSE Append(errors, py_str(cur.action_id) \o ": " \o py_str(o.error))
    /\ actions_executed' = actions_executed + 1
    /\ idx' = IF o.success THEN idx + 1 ELSE idx
    /\ pc' = IF o.success THEN "loop" ELSE "done"
    /\ result' = IF o.success THEN result
                 ELSE ExecutionResult(FALSE, "failed", actions_executed', actions_failed',
                                      action_results', error_summary_of(errors'))
    /\ cur' = NoCur
    /\ UNCHANGED <<inputs, aside, evaluated, looked_up, invocations, notified>>

\* the success branch and the failure branch: the result is appended and the
\* loop goes on to the next action
RecordOutcome(o) ==
    /\ context' = context_after_tool(context, cur.output_as, o.success, o.output)
    /\ action_results' =
         Append(action_results,
                IF o.success
                THEN success_result(cur.action_id, cur.tool_name, o.output, cur.condition)
                ELSE failure_result(cur.action_id, cur.tool_name, o.error, cur.condition))
    /\ actions_failed' = IF o.success THEN actions_failed ELSE actions_failed + 1
    /\ errors' = IF o.success THEN errors
                 ELSE Append(errors, py_str(cur.action_id) \o ": " \o py_str(o.error))
    /\ actions_executed' = actions_executed + 1
    /\ idx' = idx + 1
    /\ pc' = "loop"
    /\ cur' = NoCur
    /\ UNCHANGED <<inputs, aside, result, evaluated, looked_up, invocations, notified>>

\* execute_tool returned the tuple o
Complete(o) ==
    /\ tool_outcomes' = Append(tool_outcomes, [pos |-> idx, outcome |-> o])
    /\ IF o.success /\ is_usage_limit_error(o.output)
       THEN IF has_notifier /\ Truthy(automation_id)
            THEN /\ actions_executed' = actions_executed + 1
                 /\ notified' = notified + 1
                 /\ cur' = [cur EXCEPT !.output = o.output]
                 /\ pc' = "notify"
                 /\ UNCHANGED <<inputs, aside, context, action_results, actions_failed, errors,
                                idx, result, evaluated, looked_up, invocations>>
            ELSE /\ QuotaReturn(o.output, actions_executed + 1)
                 /\ UNCHANGED notified
       ELSE RecordOutcome(o)

(***************************************************************************)
(* execute_tool                                                            *)
(***************************************************************************)
\* get_tool_by_name returned None
LookupMisses ==
    /\ pc = "lookup"
    /\ Complete(ToolOutcome(FALSE, Null, Str("Tool not found: " \o py_str(cur.tool_name))))

\* get_tool_by_name raised: the await is outside the try block
LookupRaises ==
    /\ pc = "lookup"
    /\ pc' = "raised"
    /\ UNCHANGED <<inputs, aside, context, action_results, actions_executed, actions_failed,
                   errors, idx, cur, result, evaluated, looked_up, invocations, notified,
                   tool_outcomes>>

\* handler(tool_input) is called.  An async function gives a coroutine that
\* is awaited under wait_for; any other handler runs inside the call.
LookupFinds(isAsync) ==
    /\ pc = "lookup"
    /\ invocations' =
         Append(invocations,
                [pos |-> idx,
                 tool_input |-> json_dumps(inject_parameters(cur.params, user_id,
                                                             request_id))])
    /\ cur' = [cur EXCEPT !.kind = IF isAsync THEN "async" ELSE "sync",
                          !.timer = isAsync]
    /\ pc' = IF isAsync THEN "await" ELSE "sync_call"
    /\ UNCHANGED <<inputs, aside, context, action_results, actions_executed, actions_failed,
                   errors, idx, result, evaluated, looked_up, notified,
                   tool_outcomes>>

\* the synchronous call returned a plain value
SyncReturnsValue(r) ==
    /\ pc = "sync_call"
    /\ Complete(classify_result(r))

\* the synchronous call returned a coroutine (awaited under wait_for) or a
\* callable (run by to_thread under wait_for)
SyncReturnsWaitable(kind) ==
    /\ pc = "sync_call"
    /\ cur' = [cur EXCEPT !.kind = kind, !.timer = TRUE]
    /\ pc' = "await"
    /\ UNCHANGED <<inputs, aside, context, action_results, actions_executed, actions_failed,
                   errors, idx, result, evaluated, looked_up, invocations, notified,
                   tool_outcomes>>

\* the synchronous call raised: except Exception
SyncRaises ==
    /\ pc = "sync_call"
    /\ Complete(ToolOutcome(FALSE, Null, Str(HandlerErrorText)))

\* the synchronous call does not return: nothing interrupts it
SyncBlocks ==
    /\ pc = "sync_call"
    /\ pc' = "hung"
    /\ UNCHANGED <<inputs, aside, context, action_results, actions_executed, actions_failed,
                   errors, idx, cur, result, evaluated, looked_up, invocations, notified,
                   tool_outcomes>>

\* the awaited coroutine or thread completed with r
AwaitReturns(r) ==
    /\ pc = "await"
    /\ Complete(classify_result(r))

AwaitRaises ==
    /\ pc = "await"
    /\ Complete(ToolOutcome(FALSE, Null, Str(HandlerErrorText)))

\* wait_for raised asyncio.TimeoutError
AwaitTimesOut ==
    /\ pc = "await"
    /\ cur.timer
    /\ Complete(ToolOutcome(FALSE, Null, Str(TimeoutMessage)))

(***************************************************************************)
(* handle_usage_limit_exceeded and the end of the run                      *)
(***************************************************************************)
\* (variant) an exception of notify_usage_limit_exceeded leaves the coroutine
NotifyEndsEscalates(raised) ==
    /\ pc = "notify"
    /\ IF raised
       THEN /\ pc' = "raised"
            /\ UNCHANGED <<inputs, aside, context, action_results, actions_executed,
                           actions_failed, errors, idx, cur, result, evaluated, looked_up,
                           invocations>>
       ELSE QuotaReturn(cur.output, actions_executed)
    /\ UNCHANGED <<notified, tool_outcomes>>

\* notify_usage_limit_exceeded returned, or raised and was logged
NotifyEnds(raised) ==
    /\ pc = "notify"
    /\ QuotaReturn(cur.output, actions_executed)
    /\ UNCHANGED <<notified, tool_outcomes>>

\* the loop is over: the final classification
Finalize ==
    /\ pc = "loop"
    /\ idx > Len(actions)
    /\ result' =
         ExecutionResult(classify_status(actions_failed, actions_executed)[2],
                         classify_status(actions_failed, actions_executed)[1],
                         actions_executed, actions_failed, action_results,
                         error_summary_of(errors))
    /\ pc' = "done"
    /\ UNCHANGED <<inputs, aside, context, action_results, actions_executed, actions_failed,
                   errors, idx, cur, evaluated, looked_up, invocations, notified,
                   tool_outcomes>>

Next ==
    \/ ConditionRaises
    \/ SkipAction
    \/ ParametersRaise
    \/ StartTool
    \/ LookupMisses
    \/ LookupRaises
    \/ \E isAsync \in BOOLEAN : LookupFinds(isAsync)
    \/ \E r \in ResultPool : SyncReturnsValue(r)
    \/ \E kind \in {"coroutine", "thread"} : SyncReturnsWaitable(kind)
    \/ SyncRaises
    \/ SyncBlocks
    \/ \E r \in ResultPool : AwaitReturns(r)
    \/ AwaitRaises
    \/ AwaitTimesOut
    \/ \E raised \in BOOLEAN : NotifyEnds(raised)
    \/ Finalize

Spec == Init /\ [][Next]_vars

(***************************************************************************)
(* Properties of execute_automation                                        *)
(***************************************************************************)
Returned == pc = "done"

\* the loop ran over the whole action list (no usage-limit return)
LoopEnded == Returned /\ idx > Len(actions)

Last(q) == q[Len(q)]

\* this step appends one ActionResult
Appends == Len(action_results') = Len(action_results) + 1

\* this step is the return of execute_tool
ToolReturns == Len(tool_outcomes') = Len(tool_outcomes) + 1

CountWhere(q, P(_)) == Cardinality({i \in 1..Len(q) : P(q[i])})

IsFailed(r) == ~r.success

IsExecuted(r) == ~r.skipped

\* C1: execute_automation always returns an ExecutionResult and never raises:
\* no run reaches the state in which an exception has left the coroutine.
C1_NeverRaises == pc # "raised"

\* C2 (as stated): every returned result has one entry per action of the spec.
C2_OneResultPerAction == Returned => Len(result.action_results) = Len(actions)

\* C2 (amended): a returned result has one entry per action of the spec,
\* unless the run halted on a usage-limit result; then the entry of the
\* halting action is the last one, and its position is the number of entries.
C2_ResultLength ==
    Returned =>
        IF result.status = "usage_limit_exceeded"
        THEN Len(result.action_results) = idx /\ idx <= Len(actions)
        ELSE Len(result.action_results) = Len(actions)

C2_Witness ==
    /\ Returned
    /\ result.status # "usage_limit_exceeded"
    /\ Len(result.action_results) >= 2
    /\ result.action_results[1].skipped
    /\ ~result.action_results[2].success

\* C3: when the loop has run over the whole list, with F the number of failed
\* results and E the number of results that were not skipped: F = 0 gives
\* completed and success; 0 < F < E gives partial_failure and success;
\* F = E > 0 gives failed and no success.
C3_StatusClassifier ==
    LoopEnded =>
        LET F == CountWhere(result.action_results, IsFailed)
            E == CountWhere(result.action_results, IsExecuted)
        IN /\ F = 0 => result.status = "completed" /\ result.success
           /\ (0 < F /\ F < E) => result.status = "partial_failure" /\ result.success
           /\ (F = E /\ E > 0) => result.status = "failed" /\ ~result.success

C3_Witness ==
    /\ LoopEnded
    /\ CountWhere(result.action_results, IsFailed) = 1
    /\ CountWhere(result.action_results, IsExecuted) = 2
    /\ result.status = "partial_failure"

\* the output_as name of the action whose result was appended last
LastOutputAs == Get(actions[Len(action_results)], "output_as")

\* C4 (as stated): right after a failing action that declares output_as = k,
\* the name k is not present in the context.
C4_NameAbsentAfterFailure ==
    (/\ action_results # <<>>
     /\ idx = Len(action_results) + 1 \/ Returned
     /\ ~Last(action_results).success
     /\ Truthy(LastOutputAs))
        => ~HasKey(context, LastOutputAs.s)

\* C4 (amended): a failing action does not touch the context: the step that
\* appends a failed ActionResult leaves every name, its output_as name
\* included, as it was before the action (absent if it was absent).
C4_FailureLeavesContext ==
    [][(Appends /\ ~Last(action_results').success) => context' = context]_vars

C4_Witness ==
    /\ action_results # <<>>
    /\ ~Last(action_results).success
    /\ Last(tool_outcomes).pos = Len(action_results)
    /\ ~Last(tool_outcomes).outcome.success
    /\ Truthy(LastOutputAs)
    /\ ~HasKey(context, LastOutputAs.s)

\* C5: when the condition of the action the loop is at evaluates to false, the
\* step appends a result with success, skipped, condition_result = false and
\* no output; execute_tool is not entered and no handler is called; the action
\* is not counted as executed; the context is unchanged.
C5_SkippedAction ==
    [][(InLoop /\ Gate(actions[idx]) = "false") =>
          /\ Appends
          /\ Last(action_results').success
          /\ Last(action_results').skipped
          /\ Last(action_results').condition_result = Bool(FALSE)
          /\ Last(action_results').output = Null
          /\ looked_up' = looked_up
          /\ invocations' = invocations
          /\ tool_outcomes' = tool_outcomes
          /\ actions_executed' = actions_executed
          /\ context' = context
          /\ pc' = "loop" /\ idx' = idx + 1]_vars

C5_Witness ==
    /\ Len(action_results) = 2
    /\ action_results[2].skipped
    /\ ~action_results[1].skipped
    /\ actions_executed = 1
    /\ looked_up = {1}

\* execute_tool returned a usage-limit result for the action at position p
QuotaSeenAt(p) ==
    \E j \in 1..Len(tool_outcomes) :
        /\ tool_outcomes[j].pos = p
        /\ tool_outcomes[j].outcome.success
        /\ is_usage_limit_error(tool_outcomes[j].outcome.output)

\* C6: once an executed action's result is a mapping with error ==
\* "USAGE_LIMIT_EXCEEDED", the loop stays at that action: no later action is
\* condition-evaluated, looked up or invoked; the run is notifying or has
\* returned; and the returned result has status usage_limit_exceeded, no
\* success, and ends with the failed entry of that action, whose error begins
\* with "Usage limit exceeded:".
C6_UsageLimitHalts ==
    \A p \in 1..Len(actions) :
        QuotaSeenAt(p) =>
            /\ idx = p
            /\ \A q \in evaluated \cup looked_up : q <= p
            /\ \A j \in 1..Len(invocations) : invocations[j].pos <= p
            /\ Last(tool_outcomes).pos = p
            /\ pc \in {"notify", "done"}
            /\ Returned =>
                 /\ result.status = "usage_limit_exceeded"
                 /\ ~result.success
                 /\ result.action_results = action_results
                 /\ Len(action_results) = p
                 /\ ~action_results[p].success
                 /\ ~action_results[p].skipped
                 /\ StartsWith(action_results[p].error.s, "Usage limit exceeded:")

C6_Witness ==
    /\ Returned
    /\ QuotaSeenAt(1)
    /\ Len(actions) >= 2
    /\ Truthy(Get(actions[2], "condition"))
    /\ result.status = "usage_limit_exceeded"

\* the result appended last records a failure that execute_tool reported
\* (handler exception, timeout, unknown tool, Error: string), not a
\* usage-limit result
LastIsSoftFailure ==
    /\ action_results # <<>>
    /\ tool_outcomes # <<>>
    /\ Last(tool_outcomes).pos = Len(action_results)
    /\ ~Last(tool_outcomes).outcome.success

\* C7: a failure other than a usage-limit result never stops the run.  The
\* step that records it leaves the coroutine in the loop, at the next action,
\* with nothing returned; and the next step of the loop at an action that
\* follows such a failure evaluates the action's condition (when it has one)
\* and, when the gate passes and the parameters resolve, enters execute_tool
\* for it.
C7_FailureContinues ==
    /\ [][(ToolReturns /\ ~Last(tool_outcomes').outcome.success) =>
             /\ Appends
             /\ ~Last(action_results').success
             /\ pc' = "loop"
             /\ idx' = idx + 1
             /\ result' = NoResult]_vars
    /\ [][(InLoop /\ LastIsSoftFailure) =>
             /\ Truthy(Get(actions[idx], "condition")) => idx \in evaluated'
             /\ Gate(actions[idx]) = "false" =>
                  Appends /\ Last(action_results').skipped
             /\ (/\ Gate(actions[idx]) = "true"
                 /\ ~resolve_parameters_raises(parameters_of(actions[idx]), context))
                  => pc' = "lookup" /\ idx \in looked_up']_vars

C7_Witness ==
    /\ LastIsSoftFailure
    /\ StartsWith(Last(action_results).error.s, "Tool execution timed out")
    /\ pc = "await"
    /\ idx = Len(action_results) + 1
    /\ Truthy(Get(actions[idx], "condition"))
    /\ idx \in evaluated
    /\ \E j \in 1..Len(invocations) : invocations[j].pos = idx

\* positions of the results of successful, executed actions that declare a
\* truthy output_as equal to k
Publishers(k) ==
    {j \in 1..Len(action_results) :
        /\ action_results[j].success
        /\ ~action_results[j].skipped
        /\ Get(actions[j], "output_as") = Str(k)}

PublishedNames ==
    {k \in {Get(actions[j], "output_as").s :
              j \in {i \in 1..Len(actions) : IsStr(Get(actions[i], "output_as"))}} :
        k # "" /\ Publishers(k) # {}}

LastPublisher(k) == CHOOSE j \in Publishers(k) : \A i \in Publishers(k) : i <= j

StartContext == initial_context(trigger_data, user_dict_of(user_info), variables)

\* C8: in every state of the run, so whenever a condition is evaluated and
\* parameters are resolved, each published name holds the normalized output
\* of the last successful action so far that declares it; every other name
\* is as the initial context has it, so no name is ever removed and failed or
\* skipped actions publish nothing.
C8_PublishedNames ==
    /\ Keys(context) = Keys(StartContext) \cup PublishedNames
    /\ \A k \in Keys(context) :
         Get(context, k) =
           IF k \in PublishedNames
           THEN normalized_output_of(action_results[LastPublisher(k)].output)
           ELSE Get(StartContext, k)

C8_Witness ==
    /\ pc = "loop"
    /\ Cardinality(Publishers("k1")) = 2
    /\ normalized_output_of(action_results[1].output)
         # normalized_output_of(action_results[2].output)
    /\ normalized_output_of(action_results[2].output) # action_results[2].output
    /\ Get(context, "k1") = normalized_output_of(action_results[2].output)

\* the action has neither an action_id nor an id
HasNoId(a) == ~HasKey(a, "action_id") /\ ~HasKey(a, "id")

\* C9: action_results only grows, by one entry at its end at a time; entry i
\* belongs to action i of the spec (same tool, executed, failed or skipped);
\* an action without an explicit id has the id action_<i - 1>, its position
\* counted from zero, and an explicit id is kept.
C9_ResultsInSpecOrder ==
    /\ [][action_results' = action_results
          \/ (Appends /\ SubSeq(action_results', 1, Len(action_results)) = action_results)]_vars
    /\ [](/\ Len(action_results) <= Len(actions)
          /\ \A i \in 1..Len(action_results) :
               /\ action_results[i].tool = Get(actions[i], "tool")
               /\ HasNoId(actions[i]) =>
                    action_results[i].action_id = Str("action_" \o ToString(i - 1))
               /\ Truthy(Get(actions[i], "id")) =>
                    action_results[i].action_id = Get(actions[i], "id")
               /\ action_results[i].skipped <=> (i \in evaluated /\ i \notin looked_up))

C9_Witness ==
    /\ Len(action_results) = 2
    /\ action_results[1].skipped
    /\ ~action_results[2].success
    /\ HasNoId(actions[2])
    /\ action_results[2].action_id = Str("action_1")

\* C10: every tool invocation is bounded by timeout_per_action: while a
\* handler is running, whatever its kind, the timeout is armed, and the run
\* is never left waiting on a handler that does not complete.
C10_InvocationBounded ==
    /\ pc \in {"sync_call", "await"} => cur.timer
    /\ pc # "hung"

(***************************************************************************)
(* validation.py: validate_condition_structure                             *)
(***************************************************************************)
\* this message, when the mapping lacks the key
MissingKey(d, k, message) == IF HasKey(d, k) THEN <<>> ELSE <<message>>

\* the messages for clause number j (counted from zero) of a composition
ClauseErrors(action_id, clause, j) ==
    MissingKey(clause, "path", action_id \o ": clause " \o ToString(j) \o " missing 'path'")
    \o MissingKey(clause, "op", action_id \o ": clause " \o ToString(j) \o " missing 'op'")
    \o MissingKey(clause, "value",
                  action_id \o ": clause " \o ToString(j) \o " missing 'value'")

\* for j, clause in enumerate(clauses), from position i on
RECURSIVE ClausesErrors(_, _, _)
ClausesErrors(action_id, clauses, i) ==
    IF i > Len(clauses) THEN <<>>
    ELSE ClauseErrors(action_id, clauses[i], i - 1) \o ClausesErrors(action_id, clauses, i + 1)

\* (variant) a clause with op exists or not_exists needs no value
validate_condition_structure_lenient(condition, action_id) ==
    IF ~IsDict(condition) THEN <<action_id \o ": condition must be an object">>
    ELSE IF HasKey(condition, "path")
    THEN MissingKey(condition, "op", action_id \o ": condition clause missing 'op'")
         \o (IF Get(condition, "op") \in {Str("exists"), Str("not_exists")} THEN <<>>
             ELSE MissingKey(condition, "value",
                             action_id \o ": condition clause missing 'value'"))
    ELSE <<>>

\* the list of messages, in the order of the appends
validate_condition_structure(condition, action_id) ==
    IF ~IsDict(condition) THEN <<action_id \o ": condition must be an object">>
    ELSE IF HasKey(condition, "path")
    THEN MissingKey(condition, "op", action_id \o ": condition clause missing 'op'")
         \o MissingKey(condition, "value", action_id \o ": condition clause missing 'value'")
    ELSE IF HasKey(condition, "clauses")
    THEN (IF ~HasKey(condition, "operator")
          THEN <<action_id \o ": multi-clause condition missing 'operator'">>
          ELSE IF Get(condition, "operator") \notin {Str("AND"), Str("OR")}
          THEN <<action_id \o ": condition operator must be 'AND' or 'OR'">>
          ELSE <<>>)
         \o (IF ~IsList(Get(condition, "clauses"))
             THEN <<action_id \o ": condition clauses must be an array">>
             ELSE ClausesErrors(action_id, Get(condition, "clauses").xs, 1))
    ELSE <<>>

(***************************************************************************)
(* validation.py: validate_automation_actions                              *)
(***************************************************************************)
\* The three checks of templates walk a value in the same order and look at
\* its texts: the texts of the value, each with the path the walk gives it.
RECURSIVE StringLeaves(_, _)
RECURSIVE LeavesFrom(_, _, _)
LeavesFrom(value, path, i) ==
    IF IsDict(value)
    THEN IF i > Len(value.kv) THEN <<>>
         ELSE StringLeaves(value.kv[i][2],
                           IF path # "" THEN path \o "." \o value.kv[i][1]
                           ELSE value.kv[i][1])
                \o LeavesFrom(value, path, i + 1)
    ELSE IF i > Len(value.xs) THEN <<>>
         ELSE StringLeaves(value.xs[i], path \o "[" \o ToString(i - 1) \o "]")
                \o LeavesFrom(value, path, i + 1)

StringLeaves(value, path) ==
    IF IsStr(value) THEN << [path |-> path, s |-> value.s] >>
    ELSE IF IsContainer(value) THEN LeavesFrom(value, path, 1)
    ELSE <<>>

\* where a match ends whose run of characters other than a close brace
\* starts at position body: the position of its second close brace, or 0
BracesEnd(s, body) ==
    LET End(last) == IF last >= body /\ OccursAt(s, "}}", last + 1) THEN last + 2 ELSE 0
    IN End(BodyRunEnd(s, body))

\* handlebars_pattern.findall(s) from position i on
RECURSIVE HandlebarsMatches(_, _)
HandlebarsMatches(s, i) ==
    IF i > Len(s) THEN <<>>
    ELSE IF /\ OccursAt(s, "{{#", i) \/ OccursAt(s, "{{/", i)
            /\ BracesEnd(s, i + 3) > 0
    THEN <<Str(SubSeq(s, i, BracesEnd(s, i + 3)))>>
           \o HandlebarsMatches(s, BracesEnd(s, i + 3) + 1)
    ELSE HandlebarsMatches(s, i + 1)

\* the event_data pattern's findall(s) from position i on
RECURSIVE EventDataMatches(_, _)
EventDataMatches(s, i) ==
    LET body == i + Len("{{event_data.") IN
    IF i > Len(s) THEN <<>>
    ELSE IF OccursAt(s, "{{event_data.", i) /\ BracesEnd(s, body) > 0
    THEN <<Str(SubSeq(s, i, BracesEnd(s, body)))>>
           \o EventDataMatches(s, BracesEnd(s, body) + 1)
    ELSE EventDataMatches(s, i + 1)

\* array_pattern.findall(s) from position i on: the digits of each match
RECURSIVE ArrayMatches(_, _)
ArrayMatches(s, i) ==
    LET digits == IF OccursAt(s, "trigger_data.", i + 2)
                  THEN i + 2 + Len("trigger_data.") ELSE i + 2
        last == DigitRunEnd(s, digits)
    IN IF i > Len(s) THEN <<>>
       ELSE IF /\ OccursAt(s, "{{", i)
               /\ last >= digits
               /\ OccursAt(s, ".", last + 1)
               /\ BracesEnd(s, last + 2) > 0
       THEN <<SubSeq(s, digits, last)>> \o ArrayMatches(s, BracesEnd(s, last + 2) + 1)
       ELSE ArrayMatches(s, i + 1)

\* s.replace(old, new)
RECURSIVE ReplaceAll(_, _, _)
ReplaceAll(s, old, new) ==
    LET p == Find(s, old, 1) IN
    IF p = 0 THEN s
    ELSE SubSeq(s, 1, p - 1) \o new
           \o ReplaceAll(SubSeq(s, p + Len(old), Len(s)), old, new)

\* the messages of a check over the texts, from text i on
RECURSIVE HandlebarsErrors(_, _)
HandlebarsErrors(leaves, i) ==
    IF i > Len(leaves) THEN <<>>
    ELSE (IF HandlebarsMatches(leaves[i].s, 1) # <<>>
          THEN <<"Handlebars block syntax not supported at '" \o leaves[i].path \o "': "
                   \o py_repr(List(HandlebarsMatches(leaves[i].s, 1)))
                   \o ". Use action conditions or juniper_call_agent for conditional content.">>
          ELSE <<>>)
         \o HandlebarsErrors(leaves, i + 1)

_check_handlebars_syntax(value, path) == HandlebarsErrors(StringLeaves(value, path), 1)

\* [m.replace('{{event_data.', '{{trigger_data.') for m in matches]
Suggestions(matches) ==
    [k \in 1..Len(matches) |->
       Str(ReplaceAll(matches[k].s, "{{event_data.", "{{trigger_data."))]

RECURSIVE EventDataErrors(_, _)
EventDataErrors(leaves, i) ==
    IF i > Len(leaves) THEN <<>>
    ELSE (IF EventDataMatches(leaves[i].s, 1) # <<>>
          THEN <<"Invalid template at '" \o leaves[i].path
                   \o "': Found '{{event_data.' which is not supported. "
                   \o "Use '{{trigger_data.' instead. Found: "
                   \o py_repr(List(EventDataMatches(leaves[i].s, 1)))
                   \o ". Suggested fix: "
                   \o py_repr(List(Suggestions(EventDataMatches(leaves[i].s, 1))))>>
          ELSE <<>>)
         \o EventDataErrors(leaves, i + 1)

_check_event_data_template(value, path) == EventDataErrors(StringLeaves(value, path), 1)

RECURSIVE ArrayErrors(_, _)
ArrayErrors(leaves, i) ==
    IF i > Len(leaves) THEN <<>>
    ELSE (IF ArrayMatches(leaves[i].s, 1) # <<>>
          THEN <<"Webhook automation at '" \o leaves[i].path
                   \o "' uses array syntax {{trigger_data."
                   \o ArrayMatches(leaves[i].s, 1)[1] \o ".field}}. "
                   \o "Webhooks provide trigger_data as an OBJECT. "
                   \o "Use {{field}} or {{message_id}} instead.">>
          ELSE <<>>)
         \o ArrayErrors(leaves, i + 1)

_check_webhook_array_syntax(value, trigger_type, path) ==
    IF trigger_type # Str("webhook") THEN <<>>
    ELSE ArrayErrors(StringLeaves(value, path), 1)

\* The service_capabilities table of the host holds no row for the service:
\* result.data is empty and the check returns no message.
_check_filter_triggered_metadata(action_list, trigger_config, service_name) == <<>>

\* action.get('id', f'action_{i}')
ActionLabel(action, i) == py_str(GetOr(action, "id", Str("action_" \o ToString(i))))

\* the body of the loop over the actions, for the action at index i (from 0)
ActionErrors(action, i, registry) ==
    IF ~HasKey(action, "tool") THEN <<ActionLabel(action, i) \o ": missing 'tool' field">>
    ELSE IF ~(IsStr(Get(action, "tool")) /\ Get(action, "tool").s \in registry)
    THEN <<ActionLabel(action, i) \o ": unknown tool '" \o py_str(Get(action, "tool")) \o "'">>
    ELSE IF HasKey(action, "condition")
    THEN validate_condition_structure(Get(action, "condition"), ActionLabel(action, i))
    ELSE <<>>

RECURSIVE ActionsErrors(_, _, _)
ActionsErrors(action_list, i, registry) ==
    IF i > Len(action_list) THEN <<>>
    ELSE ActionErrors(action_list[i], i - 1, registry)
           \o ActionsErrors(action_list, i + 1, registry)

\* (is_valid, errors)
Validation(messages) == [ok |-> messages = <<>>, errors |-> messages]

\* registry: the names of the tools of the user's registry; action_list is
\* what the automation has under 'actions', a document
validate_automation_actions(action_list, registry, trigger_type, trigger_config) ==
    IF ~Truthy(action_list) \/ ~IsList(action_list)
    THEN Validation(<<"actions must be a non-empty array">>)
    ELSE Validation(
           _check_handlebars_syntax(action_list, "actions")
           \o _check_event_data_template(action_list, "actions")
           \o (IF Truthy(trigger_type)
               THEN _check_webhook_array_syntax(action_list, trigger_type, "actions")
                    \o (IF Truthy(trigger_config) /\ Truthy(Get(trigger_config, "filters"))
                        THEN _check_webhook_array_syntax(Get(trigger_config, "filters"),
                                                         trigger_type,
                                                         "trigger_config.filters")
                        ELSE <<>>)
               ELSE <<>>)
           \o (IF /\ trigger_type = Str("webhook")
                  /\ Truthy(trigger_config)
                  /\ Truthy(Get(trigger_config, "service"))
               THEN _check_filter_triggered_metadata(action_list, trigger_config,
                                                     Get(trigger_config, "service"))
               ELSE <<>>)
           \o ActionsErrors(action_list.xs, 1, registry))

(***************************************************************************)
(* The functions of the package called on their own: each action makes one *)
(* call with arguments drawn from the pools below and records it in probe. *)
(***************************************************************************)
MaxSegments == 2

MaxClauses == 2

MaxPieces == 2

MaxKeys == 2

\* '.'.join(parts)
RECURSIVE JoinParts(_)
JoinParts(parts) ==
    IF Len(parts) = 1 THEN parts[1] ELSE parts[1] \o "." \o JoinParts(Tail(parts))

\* the paths of up to MaxSegments segments, and three paths written otherwise
PathPool ==
    {JoinParts(q) : q \in SeqsUpTo({"a", "b", "0", "-1", "1", "^"}, MaxSegments) \ {<<>>}}
      \cup {"", "a[0]", "a[1].b"}

ContextPool ==
    {Map(<< <<"a", List(<< Map(<< <<"b", Num(1)>> >>), Map(<< <<"b", Num(2)>> >>) >>)>>,
            <<"b", Null>> >>),
     Map(<< <<"a", Map(<< <<"b", Num(1)>> >>)>>, <<"0", Map(<< <<"b", Num(2)>> >>)>>,
            <<"b", Num(3)>> >>),
     Map(<< <<"a", Map(<< <<"b", Null>>, <<"1", Str("one")>> >>)>> >>),
     Map(<< <<"a", Map(<< <<"b", Str("{{b}}")>> >>)>>, <<"b", Str("secret")>> >>),
     Map(<< <<"a", Map(<< <<"b", Str("{{b}}")>> >>)>>, <<"b", Str("other")>> >>)}

OpPool ==
    {"<", ">", "<=", ">=", "==", "!=", "contains", "not_contains", "starts_with",
     "ends_with", "exists", "not_exists", "matches"}

ExpectedPool == {Null, Num(1), Str("1"), Str("{{a.b}}"), Str("{{^}}")}

ClauseOf(path, op, value) ==
    Map(<< <<"path", Str(path)>>, <<"op", Str(op)>>, <<"value", value>> >>)

\* a clause that holds in every context of the pool, one that holds in none,
\* and one that is not a mapping
ClausePool ==
    {ClauseOf("a", "exists", Null), ClauseOf("zz", "exists", Null), Str("a exists")}

\* {"operator": operator, "clauses": clauses}, without the operator key when
\* operator is None
CompositeOf(operator, clauses) ==
    IF operator = Null THEN Map(<< <<"clauses", List(clauses)>> >>)
    ELSE Map(<< <<"operator", operator>>, <<"clauses", List(clauses)>> >>)

ConditionPool ==
    {CompositeOf(o, q) : o \in {Null, Str("AND"), Str("OR"), Str("and"), Str("or"), Str("XOR")},
                         q \in SeqsUpTo(ClausePool, MaxClauses)}
      \cup {Null, Map(<<>>), Map(<< <<"operator", Str("OR")>> >>),
            ClauseOf("a", "exists", Null), ClauseOf("zz", "!=", Num(1)),
            SetKey(ClauseOf("zz", "exists", Null), "clauses",
                   List(<<ClauseOf("a", "exists", Null)>>))}

\* the pieces of a template: literal text (ph false), or a placeholder with
\* this body (ph true)
PiecePool ==
    {[ph |-> FALSE, text |-> "x="], [ph |-> FALSE, text |-> " {n} "],
     [ph |-> TRUE, text |-> "zz"], [ph |-> TRUE, text |-> " a.b "],
     [ph |-> TRUE, text |-> "^"], [ph |-> TRUE, text |-> "today"]}

RECURSIVE TemplateText(_)
TemplateText(pieces) ==
    IF pieces = <<>> THEN ""
    ELSE (IF Head(pieces).ph THEN "{{" \o Head(pieces).text \o "}}" ELSE Head(pieces).text)
         \o TemplateText(Tail(pieces))

ParamsPool ==
    {Map(<<>>),
     Map(<< <<"q", Str("{{a.b}}")>>, <<"n", Num(5)>>, <<"z", Null>> >>),
     Map(<< <<"m", Map(<< <<"x", Str("b={{b}}")>>,
                          <<"deep", Map(<< <<"y", Str("{{zz}}")>> >>)>> >>)>> >>),
     Map(<< <<"l", List(<<Str("{{a.b}}"), Map(<< <<"x", Str("{{a.b}}")>> >>), Num(3)>>)>> >>),
     Map(<< <<"l", List(<<List(<<Str("{{a.b}}")>>)>>)>> >>)}

\* what normalize_for_context is given: the mappings of up to MaxKeys
\* distinct-keyed items of entries, in every order, and two values that are
\* not mappings
ItemPool ==
    LET entries ==
          {<<"user", Str("top")>>,
           <<"score", Num(1)>>,
           <<"data", Map(<< <<"user", Map(<< <<"name", Str("x")>> >>)>>,
                            <<"score", Num(85)>> >>)>>,
           <<"summary", Map(<< <<"steps", Num(3)>>, <<"score", Num(9)>> >>)>>,
           <<"author", Map(<< <<"name", Str("ann")>>, <<"score", Num(7)>> >>)>>,
           <<"result", List(<<Map(<< <<"score", Num(5)>> >>)>>)>>}
    IN {Map(q) : q \in {r \in SeqsUpTo(entries, MaxKeys) :
                          \A i, j \in 1..Len(r) : r[i][1] = r[j][1] => i = j}}
         \cup {Null, Num(3)}

ContextTriggerPool ==
    {Map(<<>>),
     Map(<< <<"subject", Str("s")>>, <<"limit", Num(1)>> >>),
     Map(<< <<"user", Str("U42")>>, <<"trigger_data", Str("inner")>>,
            <<"subject", Str("s")>> >>)}

ContextVariablesPool ==
    {Map(<<>>),
     Map(<< <<"limit", Num(50)>> >>),
     Map(<< <<"user", Str("someone")>>, <<"trigger_data", Num(0)>>,
            <<"subject", Str("v")>> >>)}

\* the state of a run
running == <<inputs, context, action_results, actions_executed, actions_failed, errors,
             idx, pc, cur, result, evaluated, looked_up, invocations, notified,
             tool_outcomes>>

\* what the calls leave alone
run == <<running, authoring>>

\* no run is under way
CallsInit ==
    /\ actions = <<>>
    /\ variables = Map(<<>>)
    /\ trigger_data = Map(<<>>)
    /\ has_notifier = FALSE
    /\ automation_id = Null
    /\ request_id = Null
    /\ context = Map(<<>>)
    /\ action_results = <<>>
    /\ actions_executed = 0
    /\ actions_failed = 0
    /\ errors = <<>>
    /\ idx = 1
    /\ pc = "idle"
    /\ cur = NoCur
    /\ result = NoResult
    /\ evaluated = {}
    /\ looked_up = {}
    /\ invocations = <<>>
    /\ notified = 0
    /\ tool_outcomes = <<>>
    /\ probe = NoProbe
    /\ fetched_tool_schemas = Map(<<>>)
    /\ automation_records = <<>>

CallGetNestedValue ==
    /\ probe = NoProbe
    /\ \E data \in ContextPool \cup {List(<< Map(<< <<"a", Num(7)>> >>) >>), Null},
          path \in PathPool :
         probe' = [fn |-> "get_nested_value", data |-> data, path |-> path,
                   out |-> get_nested_value(data, path)]
    /\ UNCHANGED run

\* out: "true", "false", or "raise"
CallEvaluateClause ==
    /\ probe = NoProbe
    /\ \E ctx \in ContextPool, path \in PathPool, op \in OpPool, value \in ExpectedPool :
         probe' = [fn |-> "evaluate_clause", context |-> ctx,
                   clause |-> ClauseOf(path, op, value),
                   out |-> IF evaluate_clause_raises(ClauseOf(path, op, value), ctx)
                           THEN "raise"
                           ELSE IF evaluate_clause(ClauseOf(path, op, value), ctx)
                                THEN "true" ELSE "false"]
    /\ UNCHANGED run

CallEvaluateCondition ==
    /\ probe = NoProbe
    /\ \E ctx \in ContextPool, condition \in ConditionPool :
         probe' = [fn |-> "evaluate_condition", context |-> ctx, condition |-> condition,
                   out |-> evaluate_condition(condition, ctx)]
    /\ UNCHANGED run

CallResolveTemplate ==
    /\ probe = NoProbe
    /\ \E ctx \in ContextPool :
         \/ \E pieces \in SeqsUpTo(PiecePool, MaxPieces) :
              probe' = [fn |-> "resolve_template", context |-> ctx, pieces |-> pieces,
                        template |-> Str(TemplateText(pieces)),
                        out |-> resolve_template(Str(TemplateText(pieces)), ctx)]
         \/ \E template \in {Null, Num(5), List(<<Str("{{a.b}}")>>)} :
              probe' = [fn |-> "resolve_template", context |-> ctx, pieces |-> <<>>,
                        template |-> template,
                        out |-> resolve_template(template, ctx)]
    /\ UNCHANGED run

CallResolveParameters ==
    /\ probe = NoProbe
    /\ \E ctx \in ContextPool, params \in ParamsPool :
         probe' = [fn |-> "resolve_parameters", context |-> ctx, params |-> params,
                   out |-> resolve_parameters(params, ctx)]
    /\ UNCHANGED run

CallNormalizeForContext ==
    /\ probe = NoProbe
    /\ \E item \in ItemPool :
         probe' = [fn |-> "normalize_for_context", item |-> item,
                   out |-> normalize_for_context(item)]
    /\ UNCHANGED run

\* the initial context that execute_automation builds
CallInitialContext ==
    /\ probe = NoProbe
    /\ \E td \in ContextTriggerPool, vs \in ContextVariablesPool :
         probe' = [fn |-> "initial_context", trigger_data |-> td, variables |-> vs,
                   out |-> initial_context(td, user_dict_of(user_info), vs)]
    /\ UNCHANGED run

\* a clause with or without each of its three keys
CheckedClausePool ==
    {Map(path \o op \o value) :
       path \in {<<>>, << <<"path", Str("a")>> >>},
       op \in {<<>>} \cup {<< <<"op", Str(o)>> >> : o \in {"exists", "not_exists", "=="}},
       value \in {<<>>, << <<"value", Num(1)>> >>}}

\* single clauses, compositions of up to MaxClauses clauses under each
\* operator, and conditions of other shapes
CheckedConditionPool ==
    CheckedClausePool
      \cup {CompositeOf(o, q) : o \in {Null, Str("AND"), Str("OR"), Str("and"), Str("XOR")},
                                q \in SeqsUpTo(CheckedClausePool, MaxClauses)}
      \cup {Str("always"), Map(<< <<"clauses", Str("a exists")>> >>)}

CallValidateConditionStructure ==
    /\ probe = NoProbe
    /\ \E condition \in CheckedConditionPool :
         probe' = [fn |-> "validate_condition_structure", condition |-> condition,
                   out |-> validate_condition_structure(condition, "action_0")]
    /\ UNCHANGED run

\* one path, written with its trigger_data. prefix, checked against a sample
CallValidatePathsAgainstOutput ==
    /\ probe = NoProbe
    /\ \E sample \in ContextPool \cup {List(<< Map(<< <<"a", Num(7)>> >>) >>), Null},
          path \in PathPool :
         probe' = [fn |-> "validate_paths_against_output", sample_output |-> sample,
                   path |-> path,
                   out |-> validate_paths_against_output({"trigger_data." \o path}, sample)]
    /\ UNCHANGED run

\* the names of the tools of the registry
RegistryTools == {"poll", "log", "send"}

\* trigger_config of a polling automation: source_tool absent, empty, in the
\* registry or not; with or without a filter on the trigger data
PollingConfigPool ==
    {Map(source \o filter) :
       source \in {<<>>} \cup {<< <<"source_tool", Str(s)>> >> : s \in {"", "poll", "ghost"}},
       filter \in {<<>>,
                   << <<"filter", Map(<< <<"path", Str("trigger_data.a")>>,
                                         <<"op", Str("exists")>>,
                                         <<"value", Null>> >>)>> >>}}

\* actions that name no path of the trigger data (the second under a key
\* that is not read), and actions that name one in a template, in a list, in
\* a condition and in a clause of a composition
PollingActionPool ==
    {Map(<< <<"tool", Str("log")>>,
            <<"parameters", Map(<< <<"msg", Str("to {{user.email}} {{trigger_data}}")>> >>)>> >>),
     Map(<< <<"tool", Str("log")>>,
            <<"params", Map(<< <<"q", Str("{{trigger_data.zz}}")>> >>)>> >>),
     Map(<< <<"tool", Str("send")>>,
            <<"parameters", Map(<< <<"q", Str("b={{trigger_data.a.b}}")>> >>)>> >>),
     Map(<< <<"tool", Str("send")>>,
            <<"parameters", Map(<< <<"l", List(<<Str("{{trigger_data.0.a}}")>>)>> >>)>> >>),
     Map(<< <<"tool", Str("log")>>,
            <<"condition", Map(<< <<"path", Str("trigger_data.zz")>>,
                                  <<"op", Str("exists")>>, <<"value", Null>> >>)>> >>),
     Map(<< <<"tool", Str("log")>>,
            <<"condition",
              Map(<< <<"operator", Str("AND")>>,
                     <<"clauses", List(<< Map(<< <<"path", Str("user.id")>>,
                                                 <<"op", Str("exists")>> >>),
                                          Map(<< <<"path", Str("trigger_data.^")>>,
                                                 <<"op", Str("exists")>> >>) >>)>> >>)>> >>)}

\* what the handler of the source tool does: it raises, it does not end in
\* time, or it returns an error text, a text that is not JSON, the JSON text
\* of a mapping, of a list, of a text or of null, a mapping, or None
SourceHandlerPool ==
    {HandlerRaises("boom"), HandlerHangs}
      \cup {HandlerReturns(v) :
              v \in {Str("Error: no access"), Str("No data found"),
                     Str("{\"a\": {\"b\": 1}}"), Str("[{\"a\": 7}]"), Str("\"text\""),
                     Str("null"),
                     Map(<< <<"a", Map(<< <<"b", Null>> >>)>>, <<"zz", Num(1)>> >>),
                     Null}}

CallPreflightValidatePollingAutomation ==
    /\ probe = NoProbe
    /\ \E trigger_config \in PollingConfigPool,
          acts \in SeqsUpTo(PollingActionPool, MaxActions),
          handler \in SourceHandlerPool :
         probe' = [fn |-> "preflight_validate_polling_automation",
                   trigger_config |-> trigger_config, actions |-> acts,
                   handler |-> handler,
                   out |-> preflight_validate_polling_automation(trigger_config, acts,
                                                                 RegistryTools, handler)]
    /\ UNCHANGED run

CallsNext ==
    \/ CallGetNestedValue
    \/ CallEvaluateClause
    \/ CallEvaluateCondition
    \/ CallResolveTemplate
    \/ CallResolveParameters
    \/ CallNormalizeForContext
    \/ CallInitialContext
    \/ CallValidateConditionStructure
    \/ CallValidatePathsAgainstOutput
    \/ CallPreflightValidatePollingAutomation

CallsSpec == CallsInit /\ [][CallsNext]_vars

(***************************************************************************)
(* agent_tools.py: the authoring of an automation.  The tools are fetched  *)
(* into the AgentContext, and the automation is deployed by                *)
(* deploy_automation or by populate_prod_db_declarative_async.             *)
(***************************************************************************)
MaxRecords == 1

\* Tool.parameters of a tool of the registry
tool_parameters(name) ==
    CASE name = "log"  -> Map(<< <<"msg", Map(<< <<"type", Str("string")>> >>)>> >>)
      [] name = "send" -> Map(<< <<"q", Map(<< <<"type", Str("string")>> >>)>>,
                                 <<"l", Map(<< <<"type", Str("array")>> >>)>> >>)
      [] name = "poll" -> Null

\* Tool.returns of a tool of the registry
tool_returns(name) == IF name = "poll" THEN Str("the rows") ELSE Null

\* AgentContext.record_fetched_tool
record_fetched_tool(schemas, tool_name, parameters, returns) ==
    SetKey(schemas, tool_name,
           Map(<< <<"parameters", PyOr(parameters, Map(<<>>))>>, <<"returns", returns>> >>))

\* tool_names[:max_tools]
FirstNames(tool_names, max_tools) ==
    SubSeq(tool_names, 1, IF Len(tool_names) < max_tools THEN Len(tool_names) ELSE max_tools)

\* the loop of fetch_tool_data over the names, from name i on: the schemas
\* recorded, the names found and the names not found
RECURSIVE FetchLoop(_, _, _, _, _)
FetchLoop(fetch, names, i, registry, recording) ==
    IF i > Len(names) THEN fetch
    ELSE IF names[i] \notin registry
    THEN FetchLoop([fetch EXCEPT !.not_found = Append(@, names[i])],
                   names, i + 1, registry, recording)
    ELSE FetchLoop([fetch EXCEPT
                      !.found_tools = Append(@, names[i]),
                      !.schemas = IF recording
                                  THEN record_fetched_tool(@, names[i],
                                                           tool_parameters(names[i]),
                                                           tool_returns(names[i]))
                                  ELSE @],
                   names, i + 1, registry, recording)

\* fetch_tool_data.  recording: an agent_context was passed, and schemas is
\* its fetched_tool_schemas.  The text returned is a warning that names the
\* tools not found and the definitions of the tools found: the model keeps
\* the two lists of names.
fetch_tool_data(tool_names, registry, schemas, recording, max_tools) ==
    IF tool_names = <<>>
    THEN [schemas |-> schemas, found_tools |-> <<>>, not_found |-> <<>>,
          text |-> "Error: tool_names is required"]
    ELSE LET Reply(fetch) ==
               [fetch EXCEPT !.text = IF fetch.found_tools = <<>>
                                      THEN "Error: No tools found" ELSE ""]
         IN Reply(FetchLoop([schemas |-> schemas, found_tools |-> <<>>,
                             not_found |-> <<>>, text |-> ""],
                            FirstNames(tool_names, max_tools), 1, registry, recording))

\* the names under 'parameters' of the action that the schema does not have
UnknownParameters(action, schema) ==
    Keys(GetOr(action, "parameters", Map(<<>>))) \ Keys(GetOr(schema, "parameters", Map(<<>>)))

\* The check of the fetched schemas that deploy_automation calls.  Every
\* tool used must be in the record of the schemas fetched, and every name of
\* a parameter of an action must be among the parameters the tool declares.
RECURSIVE SchemaErrors(_, _, _)
SchemaErrors(action_list, i, schemas) ==
    IF i > Len(action_list) THEN <<>>
    ELSE (IF ~HasKey(action_list[i], "tool") THEN <<>>
          ELSE IF ~HasKey(schemas, py_str(Get(action_list[i], "tool")))
          THEN <<"tool '" \o py_str(Get(action_list[i], "tool")) \o "' was not fetched">>
          ELSE IF UnknownParameters(action_list[i],
                                    Get(schemas, py_str(Get(action_list[i], "tool")))) # {}
          THEN <<"tool '" \o py_str(Get(action_list[i], "tool"))
                   \o "' has unknown parameters">>
          ELSE <<>>)
         \o SchemaErrors(action_list, i + 1, schemas)

validate_agent_fetched_schemas(action_list, schemas) ==
    Validation(SchemaErrors(IF IsList(action_list) THEN action_list.xs ELSE <<>>, 1, schemas))

\* what a deployment returns, and the record it writes to the storage (None
\* when it writes nothing)
Deployment(out, written) == [out |-> out, written |-> written]

\* a text with what it lists
Reply(text, details) == [text |-> text, details |-> details]

\* (success, message, automation_id)
DeployResult(success, message, id) ==
    [success |-> success, message |-> message, automation_id |-> id]

\* a check that was not made
NotChecked == Validation(<<>>)

\* the preflight was not made
NoPreflight == PreflightResult(TRUE, {}, Null, FALSE)

\* deploy_automation from 'if errors' on.  messages: the errors gathered;
\* storage: create_automation returns next_id ("ok") or raises ("raises").
SaveChecked(automation, messages, storage, next_id) ==
    IF messages.structure # <<>> \/ messages.schema # <<>> \/ messages.preflight # {}
    THEN Deployment(DeployResult(FALSE, Reply("Validation failed:", messages), Null), Null)
    ELSE IF storage = "raises"
    THEN Deployment(DeployResult(FALSE, Reply("Failed to save automation: storage down", Null),
                                 Null), Null)
    ELSE Deployment(DeployResult(TRUE,
                                 Reply("Automation '"
                                         \o py_str(GetOr(automation, "name",
                                                         Str("Unnamed Automation")))
                                         \o "' created successfully (pending review)", Null),
                                 next_id),
                    SetKey(automation, "status", Str("pending_review")))

\* the errors of the checks that failed
Gathered(structure, schema, preflight) ==
    [structure |-> IF structure.ok THEN <<>> ELSE structure.errors,
     schema |-> IF schema.ok THEN <<>> ELSE schema.errors,
     preflight |-> IF preflight.ok THEN {} ELSE preflight.errors]

\* schemas: the fetched_tool_schemas of the agent_context, or None when no
\* agent_context is passed; handler: what the handler of the source tool
\* does if the preflight calls it.  The deployment, or ValueError when the
\* preflight raises it.
deploy_automation(automation, registry, schemas, run_preflight, handler, storage, next_id) ==
    LET action_list == GetOr(automation, "actions", List(<<>>))
        trigger_type == Get(automation, "trigger_type")
        trigger_config == GetOr(automation, "trigger_config", Map(<<>>))
        Decide(preflight) ==
          IF preflight = ValueError THEN ValueError
          ELSE SaveChecked(automation,
                           Gathered(validate_automation_actions(action_list, registry,
                                                                trigger_type, trigger_config),
                                    IF schemas # Null
                                    THEN validate_agent_fetched_schemas(action_list, schemas)
                                    ELSE NotChecked,
                                    preflight),
                           storage, next_id)
    IN Decide(IF run_preflight /\ trigger_type = Str("polling")
              THEN preflight_validate_polling_automation(trigger_config, action_list.xs,
                                                         registry, handler)
              ELSE NoPreflight)

(***************************************************************************)
(* validation.py: populate_prod_db_declarative_async                       *)
(***************************************************************************)
\* the limit of the host's configuration, taken as the bound on the records
\* that the storage starts with
MAX_USER_AUTOMATIONS == MaxRecords

\* d.pop(k)
RemoveKey(d, k) == Map(SelectSeq(d.kv, LAMBDA e : e[1] # k))

\* sanitize_action_strings: the actions, or ValueError for the
\* JSONDecodeError of its json.loads
sanitize_action_strings(action_list) ==
    IF ~Truthy(action_list) THEN action_list
    ELSE LET Loaded(r) == IF r.ok THEN r.v ELSE ValueError
         IN Loaded(json_loads(ReplaceAll(ReplaceAll(ReplaceAll(json_dumps(action_list),
                                                               "\\\\'", "'"),
                                                    "\\\\\"", "\""),
                                         "\\\\n", "\\n")))

\* tool_parameters is renamed to tool_params
CorrectedConfig(trigger_config) ==
    IF HasKey(trigger_config, "tool_parameters") /\ ~HasKey(trigger_config, "tool_params")
    THEN SetKey(RemoveKey(trigger_config, "tool_parameters"), "tool_params",
                Get(trigger_config, "tool_parameters"))
    ELSE trigger_config

\* (variant) no action is checked against the schemas fetched
FetchedLoop_unchecked(found, action_list, i, schemas) == found

\* the loop over the actions that checks the schemas fetched, from action i
\* on: the tools not fetched, and for the tools fetched the names of
\* parameters that their schema does not have
RECURSIVE FetchedLoop(_, _, _, _)
FetchedLoop(found, action_list, i, schemas) ==
    IF i > Len(action_list) THEN found
    ELSE LET tool_name == Get(action_list[i], "tool") IN
         IF ~Truthy(tool_name) THEN FetchedLoop(found, action_list, i + 1, schemas)
         ELSE IF ~HasKey(schemas, tool_name.s)
         THEN FetchedLoop([found EXCEPT !.unfetched_tools = Append(@, tool_name)],
                          action_list, i + 1, schemas)
         ELSE IF UnknownParameters(action_list[i], Get(schemas, tool_name.s)) # {}
         THEN FetchedLoop([found EXCEPT !.param_errors =
                             Append(@, [tool |-> tool_name.s,
                                        unknown_params |->
                                          UnknownParameters(action_list[i],
                                                            Get(schemas, tool_name.s))])],
                          action_list, i + 1, schemas)
         ELSE FetchedLoop(found, action_list, i + 1, schemas)

\* the record inserted.  Identifiers and times are not modelled: the id is
\* next_id and every time is the text now.
automation_data(params, trigger_config, sanitized, next_id) ==
    LET active == GetOr(params, "active", Bool(TRUE))
        trigger_type == GetOr(params, "trigger_type", Str("manual"))
        common ==
          Map(<< <<"id", next_id>>,
                 <<"user_id", user_id>>,
                 <<"name", Get(params, "name")>>,
                 <<"description", GetOr(params, "description", Str(""))>>,
                 <<"trigger_type", trigger_type>>,
                 <<"trigger_config", trigger_config>>,
                 <<"actions", sanitized>>,
                 <<"variables", GetOr(params, "variables", Map(<<>>))>>,
                 <<"active", active>>,
                 <<"status", IF Truthy(active) THEN Str("active") ELSE Str("pending_review")>>,
                 <<"confirmed_at", IF Truthy(active) THEN Str("now") ELSE Null>>,
                 <<"created_at", Str("now")>>,
                 <<"updated_at", Str("now")>> >>)
    IN IF trigger_type = Str("polling")
       THEN Spread(common,
                   Map(<< <<"next_poll_at", Str("now")>>,
                          <<"polling_interval_minutes",
                            GetOr(trigger_config, "polling_interval_minutes", Num(60))>>,
                          <<"last_poll_cursor", Str("today")>> >>))
       ELSE common

\* (variant) the record is inserted whatever the preflight found
StoreUnchecked(params, trigger_config, preflight, current_count, count, insert, next_id) ==
    Deployment(Reply("Automation deployed successfully!", {}),
               automation_data(params, trigger_config, Get(params, "actions"), next_id))

\* populate_prod_db_declarative_async from the result of the preflight on.
\* count: the query of the count returns current_count ("ok") or raises
\* ("raises"); insert: the insert returns the row ("ok"), returns no row
\* ("empty") or raises ("raises").
StoreChecked(params, trigger_config, preflight, current_count, count, insert, next_id) ==
    IF preflight = ValueError THEN ValueError
    ELSE IF ~preflight.ok
    THEN Deployment(Reply("Pre-flight validation failed:", preflight.errors), Null)
    ELSE IF count = "ok" /\ current_count >= MAX_USER_AUTOMATIONS
    THEN Deployment(Reply("Error: You have reached the maximum of "
                            \o ToString(MAX_USER_AUTOMATIONS) \o " automations.", Null),
                    Null)
    ELSE IF sanitize_action_strings(Get(params, "actions")) = ValueError THEN ValueError
    ELSE IF insert = "raises"
    THEN Deployment(Reply("Error deploying automation: storage down", Null), Null)
    ELSE IF insert = "empty"
    THEN Deployment(Reply("Error: Failed to insert automation record", Null), Null)
    ELSE Deployment(Reply("Automation deployed successfully!",
                          {m \in preflight.errors : StartsWith(m.text, "Warning:")}),
                    automation_data(params, trigger_config,
                                    sanitize_action_strings(Get(params, "actions")), next_id))

\* populate_prod_db_declarative_async from the parsed input on, with a
\* database connection, a user_id and no user_timezone
DeployParams(params, schemas, registry, handler, current_count, count, insert, next_id) ==
    LET trigger_type == GetOr(params, "trigger_type", Str("manual"))
        trigger_config == CorrectedConfig(GetOr(params, "trigger_config", Map(<<>>)))
        action_list == Get(params, "actions")
        Fetched(found) ==
          IF found.unfetched_tools # <<>>
          THEN Reply("Error: You must call fetch_tool_data for these tools before using them: "
                       \o py_repr(List(found.unfetched_tools))
                       \o ". Use fetch_tool_data to get the correct parameter names.", Null)
          ELSE IF found.param_errors # <<>>
          THEN Reply("Validation failed:", found.param_errors)
          ELSE Null
        Validated(validation) ==
          IF ~validation.ok
          THEN Deployment(Reply("Validation failed:", validation.errors), Null)
          ELSE StoreChecked(params, trigger_config,
                            IF trigger_type = Str("polling")
                            THEN preflight_validate_polling_automation(
                                   trigger_config, action_list.xs, registry, handler)
                            ELSE NoPreflight,
                            current_count, count, insert, next_id)
        Discovered(refusal) ==
          IF refusal # Null THEN Deployment(refusal, Null)
          ELSE IF trigger_type \notin {Str("webhook"), Str("polling"), Str("schedule_once"),
                                       Str("schedule_recurring"), Str("manual")}
          THEN Deployment(Reply("Error: trigger_type must be one of: webhook, polling, "
                                  \o "schedule_once, schedule_recurring, manual", Null),
                          Null)
          ELSE Validated(validate_automation_actions(action_list, registry, trigger_type,
                                                     trigger_config))
    IN IF ~Truthy(Get(params, "name"))
       THEN Deployment(Reply("Error: 'name' is required", Null), Null)
       ELSE IF ~Truthy(action_list)
       THEN Deployment(Reply("Error: 'actions' is required for declarative automations", Null),
                       Null)
       ELSE Discovered(IF schemas # Null
                       THEN Fetched(FetchedLoop([unfetched_tools |-> <<>>,
                                                 param_errors |-> <<>>],
                                                action_list.xs, 1, schemas))
                       ELSE Null)

\* schemas: the fetched_tool_schemas of the agent_instance, or None when no
\* agent_instance is passed.  The deployment, or ValueError when the
\* preflight or the sanitizing of the actions raises it.
populate_prod_db_declarative_async(input_str, schemas, registry, handler, current_count, count, insert, next_id) ==
    LET Loaded(r) ==
          IF ~r.ok THEN Deployment(Reply("Error: Invalid JSON", Null), Null)
          ELSE DeployParams(r.v, schemas, registry, handler, current_count, count, insert,
                            next_id)
    IN Loaded(json_loads(input_str))

(***************************************************************************)
(* One authoring: tools are fetched, then the automation is deployed once. *)
(***************************************************************************)
\* the default of max_tools
max_tools_default == 5

\* the lists of names asked for: none, tools of the registry, a name the
\* registry does not have, and more names than max_tools_default
NamesPool ==
    {<<>>, <<"log">>, <<"send", "log">>, <<"ghost", "send">>,
     <<"log", "log", "log", "log", "log", "send">>}

LogAction == Map(<< <<"tool", Str("log")>>, <<"parameters", Map(<< <<"msg", Str("hi")>> >>)>> >>)

\* automations: two that pass every check when their tools are fetched (the
\* second a polling one), a polling one without source_tool, one with a tool
\* the registry does not have and a block template, one with a parameter its
\* tool does not declare, one without name and actions, and one whose
\* trigger_type is not a trigger type
AutomationPool ==
    {Map(<< <<"name", Str("n1")>>, <<"trigger_type", Str("manual")>>,
            <<"actions", List(<<LogAction>>)>> >>),
     Map(<< <<"name", Str("n2")>>, <<"trigger_type", Str("polling")>>,
            <<"trigger_config", Map(<< <<"source_tool", Str("poll")>>,
                                       <<"tool_parameters", Map(<< <<"d", Str("{{today}}")>> >>)>> >>)>>,
            <<"actions",
              List(<< Map(<< <<"tool", Str("send")>>,
                             <<"parameters", Map(<< <<"q", Str("{{trigger_data.a.b}}")>> >>)>> >>) >>)>>,
            <<"active", Bool(FALSE)>> >>),
     Map(<< <<"name", Str("n3")>>, <<"trigger_type", Str("polling")>>,
            <<"trigger_config", Map(<<>>)>>,
            <<"actions", List(<<LogAction>>)>> >>),
     Map(<< <<"name", Str("n4")>>, <<"trigger_type", Str("manual")>>,
            <<"actions",
              List(<< Map(<< <<"tool", Str("ghost")>>,
                             <<"parameters", Map(<< <<"msg", Str("{{#if x}}")>> >>)>> >>) >>)>> >>),
     Map(<< <<"name", Str("n5")>>, <<"trigger_type", Str("manual")>>,
            <<"actions",
              List(<< LogAction,
                      Map(<< <<"tool", Str("log")>>,
                             <<"parameters", Map(<< <<"text", Str("x")>> >>)>> >>) >>)>> >>),
     Map(<< <<"trigger_type", Str("manual")>>, <<"actions", List(<<>>)>> >>),
     Map(<< <<"name", Str("n7")>>, <<"trigger_type", Str("cron")>>,
            <<"actions", List(<<LogAction>>)>> >>)}

\* the handler of the source tool returns a sample that has the path a.b,
\* returns one that lacks it, or raises
DeployHandlerPool ==
    {HandlerReturns(Map(<< <<"a", Map(<< <<"b", Num(1)>> >>)>> >>)),
     HandlerReturns(Map(<< <<"zz", Num(1)>> >>)),
     HandlerRaises("boom")}

\* a record that the storage holds before the authoring
EarlierRecord == Map(<< <<"id", Str("id-0")>>, <<"name", Str("earlier")>> >>)

\* the id given to the next record
NextId == Str("id-" \o ToString(Len(automation_records) + 1))

AuthoringInit ==
    /\ actions = <<>>
    /\ variables = Map(<<>>)
    /\ trigger_data = Map(<<>>)
    /\ has_notifier = FALSE
    /\ automation_id = Null
    /\ request_id = Null
    /\ context = Map(<<>>)
    /\ action_results = <<>>
    /\ actions_executed = 0
    /\ actions_failed = 0
    /\ errors = <<>>
    /\ idx = 1
    /\ pc = "idle"
    /\ cur = NoCur
    /\ result = NoResult
    /\ evaluated = {}
    /\ looked_up = {}
    /\ invocations = <<>>
    /\ notified = 0
    /\ tool_outcomes = <<>>
    /\ probe = NoProbe
    /\ fetched_tool_schemas = Map(<<>>)
    /\ automation_records \in SeqsUpTo({EarlierRecord}, MaxRecords)

\* no deployment has been made
Authoring == probe.fn \notin {"deploy_automation", "populate_prod_db_declarative_async"}

\* the storage after a deployment
Stored(deployment) ==
    IF deployment # ValueError /\ deployment.written # Null
    THEN Append(automation_records, deployment.written)
    ELSE automation_records

\* what the caller of a deployment gets
ReturnOf(deployment) == IF deployment = ValueError THEN ValueError ELSE deployment.out

FetchToolData ==
    /\ Authoring
    /\ \E tool_names \in NamesPool, recording \in BOOLEAN, max_tools \in {1, max_tools_default} :
         LET Fetch(fetch) ==
               /\ fetched_tool_schemas' = fetch.schemas
               /\ probe' = [fn |-> "fetch_tool_data", tool_names |-> tool_names,
                            recording |-> recording, max_tools |-> max_tools,
                            out |-> [found_tools |-> fetch.found_tools,
                                     not_found |-> fetch.not_found, text |-> fetch.text]]
         IN Fetch(fetch_tool_data(tool_names, RegistryTools, fetched_tool_schemas,
                                  recording, max_tools))
    /\ UNCHANGED <<running, automation_records>>

DeployAutomation ==
    /\ Authoring
    /\ \E automation \in AutomationPool, with_context \in BOOLEAN, run_preflight \in BOOLEAN,
          handler \in DeployHandlerPool, storage \in {"ok", "raises"} :
         LET Deploy(deployment) ==
               /\ automation_records' = Stored(deployment)
               /\ probe' = [fn |-> "deploy_automation", automation |-> automation,
                            with_context |-> with_context, run_preflight |-> run_preflight,
                            handler |-> handler, storage |-> storage,
                            out |-> ReturnOf(deployment)]
         IN Deploy(deploy_automation(automation, RegistryTools,
                                     IF with_context THEN fetched_tool_schemas ELSE Null,
                                     run_preflight, handler, storage, NextId))
    /\ UNCHANGED <<running, fetched_tool_schemas>>

PopulateProdDbDeclarativeAsync ==
    /\ Authoring
    /\ \E input_str \in {json_dumps(a) : a \in AutomationPool} \cup {"{not json"},
          with_context \in BOOLEAN, handler \in DeployHandlerPool,
          count \in {"ok", "raises"}, insert \in {"ok", "empty", "raises"} :
         LET Deploy(deployment) ==
               /\ automation_records' = Stored(deployment)
               /\ probe' = [fn |-> "populate_prod_db_declarative_async",
                            input_str |-> input_str, with_context |-> with_context,
                            handler |-> handler, count |-> count, insert |-> insert,
                            out |-> ReturnOf(deployment)]
         IN Deploy(populate_prod_db_declarative_async(
                     input_str, IF with_context THEN fetched_tool_schemas ELSE Null,
                     RegistryTools, handler, Len(automation_records), count, insert, NextId))
    /\ UNCHANGED <<running, fetched_tool_schemas>>

AuthoringNext ==
    \/ FetchToolData
    \/ DeployAutomation
    \/ PopulateProdDbDeclarativeAsync

AuthoringSpec == AuthoringInit /\ [][AuthoringNext]_vars

(***************************************************************************)
(* Properties of the functions called on their own                         *)
(***************************************************************************)
\* C11: in the initial context every key of variables holds the variable's
\* value; unless variables overrides them, user is the UserInfo record and
\* trigger_data is the whole trigger payload, also when the payload has keys
\* of those names; every other key of the payload is at the context root
\* with its value, and the context has no other key.
C11_InitialContext ==
    probe.fn = "initial_context" =>
      /\ \A k \in Keys(probe.variables) : Get(probe.out, k) = Get(probe.variables, k)
      /\ "user" \notin Keys(probe.variables)
           => Get(probe.out, "user") = user_dict_of(user_info)
      /\ "trigger_data" \notin Keys(probe.variables)
           => Get(probe.out, "trigger_data") = probe.trigger_data
      /\ \A k \in Keys(probe.trigger_data)
                    \ (Keys(probe.variables) \cup {"user", "trigger_data"}) :
           Get(probe.out, k) = Get(probe.trigger_data, k)
      /\ Keys(probe.out) = Keys(probe.trigger_data) \cup Keys(probe.variables)
                             \cup {"user", "trigger_data"}

\* a payload with keys user and trigger_data, and variables that override a
\* payload field but not the reserved names
C11_Witness ==
    /\ probe.fn = "initial_context"
    /\ {"user", "trigger_data"} \subseteq Keys(probe.trigger_data)
    /\ Keys(probe.variables) = {"limit"}
    /\ Get(probe.out, "user") = user_dict_of(user_info)
    /\ Get(probe.out, "trigger_data") = probe.trigger_data

\* C12: every tool invocation receives parameters in which user_id is the
\* execution's user_id, is_automation is true and, when the execution has a
\* request_id, request_id is that one, whatever the action's parameters or
\* templates supply under those names.  Stated of each invocation when its
\* handler has just been called, on the JSON text the handler was given.
C12_ReservedParameters ==
    pc \in {"await", "sync_call"} =>
        LET Injected(r) ==
              /\ r.ok
              /\ IsDict(r.v)
              /\ Get(r.v, "user_id") = user_id
              /\ Get(r.v, "is_automation") = Bool(TRUE)
              /\ Truthy(request_id) => Get(r.v, "request_id") = request_id
        IN /\ invocations # <<>>
           /\ invocations[Len(invocations)].pos = idx
           /\ Injected(json_loads(invocations[Len(invocations)].tool_input))

\* the action whose parameters name user_id, request_id and is_automation
\* has been invoked
C12_Witness ==
    /\ pc \in {"await", "sync_call"}
    /\ actions[idx] = ActLog
    /\ Get(cur.params, "request_id") = Str("forged")
    /\ Get(cur.params, "is_automation") = Bool(FALSE)
    /\ Get(json_loads(invocations[Len(invocations)].tool_input).v, "request_id")
         = request_id

\* a segment that matches the integer regex (optional leading -)
IsIntegerSegment(part) ==
    IsDecimal(part) \/ (StartsWith(part, "-") /\ IsDecimal(Tail(part)))

\* every key and index that the traversal of parts, from part i on, asks of
\* current is there (the value found at the end may be null)
RECURSIVE PresentFrom(_, _, _)
PresentFrom(current, parts, i) ==
    IF i > Len(parts) THEN TRUE
    ELSE IF IsIntegerSegment(parts[i])
    THEN IF IsList(current)
         THEN IF 0 - Len(current.xs) <= IntOf(parts[i]) /\ IntOf(parts[i]) < Len(current.xs)
              THEN PresentFrom(current.xs[IF IntOf(parts[i]) >= 0 THEN IntOf(parts[i]) + 1
                                          ELSE Len(current.xs) + IntOf(parts[i]) + 1],
                               parts, i + 1)
              ELSE FALSE
         ELSE IF ~IsDict(current) THEN FALSE
         ELSE IF HasKey(current, parts[i])
         THEN PresentFrom(Get(current, parts[i]), parts, i + 1)
         ELSE IF IntOf(parts[i]) = 0 THEN PresentFrom(current, parts, i + 1)
         ELSE FALSE
    ELSE IF ~IsDict(current) THEN FALSE
    ELSE IF HasKey(current, parts[i]) THEN PresentFrom(Get(current, parts[i]), parts, i + 1)
    ELSE FALSE

\* no key or index on the path is missing
Present(data, path) == PresentFrom(data, Split(BracketRewrite(path), "."), 1)

\* C13: a clause with op exists is true exactly when no key or index on its
\* path is missing, also when the value there is null; not_exists is true
\* exactly when one is missing; and exists is true iff not_exists is false
\* for the same context and path.
C13_ExistsDistinguishesNull ==
    (/\ probe.fn = "evaluate_clause"
     /\ probe.out # "raise"
     /\ Get(probe.clause, "op") \in {Str("exists"), Str("not_exists")})
    => /\ (probe.out = "true")
            = (Present(probe.context, Get(probe.clause, "path").s)
                 = (Get(probe.clause, "op") = Str("exists")))
       /\ evaluate_clause(SetKey(probe.clause, "op", Str("exists")), probe.context)
            # evaluate_clause(SetKey(probe.clause, "op", Str("not_exists")), probe.context)

\* C14: for every operator other than exists and not_exists (unknown
\* operators included) a clause whose path is absent from the context is
\* false, whatever the expected value.
C14_AbsentIsFalse ==
    (/\ probe.fn = "evaluate_clause"
     /\ probe.out # "raise"
     /\ Get(probe.clause, "op") \notin {Str("exists"), Str("not_exists")}
     /\ ~Present(probe.context, Get(probe.clause, "path").s))
    => probe.out = "false"

\* != against an absent path, with an expected value that differs from None
C14_Witness ==
    /\ probe.fn = "evaluate_clause"
    /\ Get(probe.clause, "op") = Str("!=")
    /\ Get(probe.clause, "value") = Num(1)
    /\ ~Present(probe.context, Get(probe.clause, "path").s)
    /\ probe.out = "false"

\* the clause evaluates, and to true
ClauseTrue(clause, ctx) ==
    IF evaluate_clause_raises(clause, ctx) THEN FALSE
    ELSE evaluate_clause(clause, ctx)

\* C15: evaluate_condition is true for an absent or empty condition; a
\* condition with path is evaluated as that one clause; a condition with
\* clauses is true for an empty clause list, and for a list with clauses it
\* is true under AND (the default, in any letter case) iff every clause is
\* true, under OR iff at least one clause is true, and false under any other
\* operator.
C15_Composition ==
    (probe.fn = "evaluate_condition" /\ probe.out # "raise") =>
      LET Composite(operator, clauses) ==
            IF clauses = <<>> THEN probe.out = "true"
            ELSE IF operator = "AND"
            THEN (probe.out = "true")
                   = (\A i \in 1..Len(clauses) : ClauseTrue(clauses[i], probe.context))
            ELSE IF operator = "OR"
            THEN (probe.out = "true")
                   = (\E i \in 1..Len(clauses) : ClauseTrue(clauses[i], probe.context))
            ELSE probe.out = "false"
      IN IF probe.condition \in {Null, Map(<<>>)} THEN probe.out = "true"
         ELSE IF HasKey(probe.condition, "path")
         THEN (probe.out = "true") = ClauseTrue(probe.condition, probe.context)
         ELSE Composite(Upper(GetOr(probe.condition, "operator", Str("AND")).s),
                        GetOr(probe.condition, "clauses", List(<<>>)).xs)

\* an OR, written in lower case, of a clause that is false and one that is true
C15_Witness ==
    /\ probe.fn = "evaluate_condition"
    /\ probe.condition = CompositeOf(Str("or"), <<ClauseOf("zz", "exists", Null),
                                                  ClauseOf("a", "exists", Null)>>)
    /\ probe.out = "true"

\* data.get over the segments that are left (none left: the node itself)
GetRest(node, rest) ==
    IF rest = <<>> THEN node ELSE get_nested_value(node, JoinParts(rest))

\* C16: where the node reached by the segments before it is a mapping, a
\* segment that is an integer descends into the key equal to the segment
\* when the mapping has it; without that key the index 0 is skipped and the
\* rest of the path is resolved against the same mapping, and any other
\* index gives absent.
C16_PerItemFallback ==
    (probe.fn = "get_nested_value" /\ probe.out # ValueError) =>
      LET Segment(node, part, rest) ==
            (IsDict(node) /\ IsIntegerSegment(part)) =>
               IF HasKey(node, part) THEN probe.out = GetRest(Get(node, part), rest)
               ELSE IF IntOf(part) = 0 THEN probe.out = GetRest(node, rest)
               ELSE probe.out = Null
          Each(parts) ==
            \A k \in 1..Len(parts) :
               Segment(GetRest(probe.data, SubSeq(parts, 1, k - 1)), parts[k],
                       SubSeq(parts, k + 1, Len(parts)))
      IN Each(Split(BracketRewrite(probe.path), "."))

\* 0.a against a mapping with key a and without key "0"
C16_Witness ==
    /\ probe.fn = "get_nested_value"
    /\ probe.path = "0.a"
    /\ get_nested_value(probe.data, "a.0") = probe.out
    /\ IsDict(probe.data)
    /\ ~HasKey(probe.data, "0")
    /\ probe.out = Get(probe.data, "a")
    /\ probe.out # Null

\* get(D, a.b) = get(get(D, a), b) for every split of the path whose
\* intermediate value is a mapping or a sequence, where the lookup returns
CompositionLaw ==
    (probe.fn = "get_nested_value" /\ probe.out # ValueError) =>
      LET Splits(parts) ==
            \A k \in 1..(Len(parts) - 1) :
               IsContainer(GetRest(probe.data, SubSeq(parts, 1, k)))
                 => probe.out = GetRest(GetRest(probe.data, SubSeq(parts, 1, k)),
                                        SubSeq(parts, k + 1, Len(parts)))
      IN Splits(Split(BracketRewrite(probe.path), "."))

\* C17: get(D, a.b) = get(get(D, a), b) for every split of the path into a
\* and b whose intermediate value get(D, a) is a mapping or a sequence,
\* with numeric segments, negative indices and the per-item fallback; and
\* the lookup gives a value or absent, never an error.
C17_PathComposition ==
    /\ CompositionLaw
    /\ probe.fn = "get_nested_value" => probe.out # ValueError

\* what the claim asks of each piece of a template: literal text stays, a
\* placeholder that is no built-in and whose path is absent from ctx becomes
\* the sentinel, any other placeholder becomes what replace_var makes of it
RECURSIVE ExpectedText(_, _)
ExpectedText(pieces, ctx) ==
    IF pieces = <<>> THEN ""
    ELSE (IF ~Head(pieces).ph THEN Head(pieces).text
          ELSE IF Strip(Head(pieces).text) \notin BuiltinNames
                  /\ ~Present(ctx, Strip(Head(pieces).text))
          THEN NoData
          ELSE replace_var(Head(pieces).text, ctx).s)
         \o ExpectedText(Tail(pieces), ctx)

\* where resolve_template returns: a non-string comes back as it is, and a
\* string comes back with each missing placeholder replaced by the sentinel
\* and every character outside placeholders unchanged
MissingBecomesSentinel ==
    (probe.fn = "resolve_template" /\ probe.out # ValueError) =>
       IF ~IsStr(probe.template) THEN probe.out = probe.template
       ELSE probe.out = Str(ExpectedText(probe.pieces, probe.context))

\* C18: resolve_template replaces every placeholder that is no built-in and
\* whose path is absent from the context by [No available data], leaves
\* every character outside placeholders unchanged (a string without
\* placeholders and a non-string are returned as they are), and does not
\* fail because of a missing variable.
C18_MissingVariables ==
    /\ MissingBecomesSentinel
    /\ probe.fn = "resolve_template" => probe.out # ValueError

\* the document with every string leaf, at every depth, resolved against ctx
RECURSIVE DeepResolve(_, _)
DeepResolve(d, ctx) ==
    IF IsStr(d) THEN resolve_template(d, ctx)
    ELSE IF IsDict(d)
    THEN Map([i \in 1..Len(d.kv) |-> <<d.kv[i][1], DeepResolve(d.kv[i][2], ctx)>>])
    ELSE IF IsList(d) THEN List([i \in 1..Len(d.xs) |-> DeepResolve(d.xs[i], ctx)])
    ELSE d

\* C19: resolve_parameters resolves every string leaf of the parameters at
\* every depth, through mappings and through sequences, a sequence nested
\* directly inside a sequence included, and passes every other leaf through
\* unchanged.
C19_ResolvesEveryLeaf ==
    probe.fn = "resolve_parameters"
      => probe.out = DeepResolve(probe.params, probe.context)

\* the names that the entry value v can bring to the root: its own fields,
\* the fields of the mappings directly inside it, the fields of the first
\* item of a sequence
FieldNames(v) ==
    IF IsDict(v)
    THEN Keys(v) \cup UNION {IF IsDict(v.kv[j][2]) THEN Keys(v.kv[j][2]) ELSE {}
                               : j \in 1..Len(v.kv)}
    ELSE IF IsList(v) /\ v.xs # <<>> /\ IsDict(v.xs[1]) THEN Keys(v.xs[1])
    ELSE {}

\* nothing shadows field k of the wrapper entry at position i of item: k is
\* no top-level key, no other entry brings a field k, and no mapping inside
\* the wrapper has a field k
Unshadowed(item, i, k) ==
    /\ k \notin Keys(item)
    /\ \A j \in 1..Len(item.kv) : j # i => k \notin FieldNames(item.kv[j][2])
    /\ \A j \in 1..Len(item.kv[i][2].kv) :
          IsDict(item.kv[i][2].kv[j][2]) => k \notin Keys(item.kv[i][2].kv[j][2])

\* when nothing shadows it, field k of a wrapper mapping is readable both as
\* <wrapper>.k and as k
WrapperFieldsReadable ==
    (probe.fn = "normalize_for_context" /\ IsDict(probe.item)) =>
       \A i \in 1..Len(probe.item.kv) :
          (probe.item.kv[i][1] \in wrapper_keys /\ IsDict(probe.item.kv[i][2])) =>
             \A k \in Keys(probe.item.kv[i][2]) :
                Unshadowed(probe.item, i, k) =>
                   /\ Get(Get(probe.out, probe.item.kv[i][1]), k)
                        = Get(probe.item.kv[i][2], k)
                   /\ HasKey(probe.out, k)
                   /\ Get(probe.out, k) = Get(probe.item.kv[i][2], k)

\* C20: normalization never overwrites a root key: whatever the order of the
\* keys, each top-level key of the input keeps its original value in the
\* normalized output (a promoted field is written to the root only where no
\* root key of that name exists), and a wrapper mapping's field that nothing
\* shadows is readable both as <wrapper>.k and as k.
C20_RootKeysKept ==
    /\ (probe.fn = "normalize_for_context" /\ IsDict(probe.item)) =>
          \A k \in Keys(probe.item) :
             HasKey(probe.out, k) /\ Get(probe.out, k) = Get(probe.item, k)
    /\ WrapperFieldsReadable

\* C27: normalize_for_context gives {"value": v} exactly for an input that
\* is neither null nor a mapping, and the empty mapping for null; a mapping,
\* the empty one included, is never wrapped, so what is bound under
\* output_as for a tool that returned the empty mapping has no value key.
C27_WrapsNonMappings ==
    probe.fn = "normalize_for_context" =>
      /\ (probe.out = Map(<< <<"value", probe.item>> >>))
           = (probe.item # Null /\ ~IsDict(probe.item))
      /\ probe.item = Null => probe.out = Map(<<>>)
      /\ (IsDict(probe.item) /\ ~HasKey(probe.item, "value"))
           => ~HasKey(normalized_output_of(probe.item), "value")

\* C28: in every returned ExecutionResult, the quota halt after earlier
\* failures included, actions_failed is the number of entries with success
\* false, actions_executed is the number of entries that were not skipped,
\* and success holds iff status is completed or partial_failure (never
\* running).
C28_CountersMatchResults ==
    Returned =>
      /\ result.actions_failed = CountWhere(result.action_results, IsFailed)
      /\ result.actions_executed = CountWhere(result.action_results, IsExecuted)
      /\ result.success = (result.status \in {"completed", "partial_failure"})
      /\ result.status # "running"

\* the same for the runs whose loop ran over the whole action list
CountersMatchAfterLoop ==
    LoopEnded =>
      /\ result.actions_failed = CountWhere(result.action_results, IsFailed)
      /\ result.actions_executed = CountWhere(result.action_results, IsExecuted)
      /\ result.success = (result.status \in {"completed", "partial_failure"})

\* on the quota halt: the executed count and the success flag
QuotaHaltCounters ==
    (Returned /\ ~LoopEnded) =>
      /\ result.actions_failed = 1
      /\ result.actions_executed = CountWhere(result.action_results, IsExecuted)
      /\ ~result.success /\ result.status = "usage_limit_exceeded"

\* C25: on the quota path notify_usage_limit_exceeded is called once when a
\* notification handler and an automation_id were both supplied, and not at
\* all otherwise; the call is made before the result is returned; and
\* however the call ends, by returning or by raising, the run returns the
\* result of the quota path: status usage_limit_exceeded, no success, no
\* exception.
C25_QuotaNotification ==
    [][/\ notified' # notified
            => /\ notified = 0 /\ notified' = 1
               /\ has_notifier /\ Truthy(automation_id)
               /\ QuotaSeenAt(idx)'
               /\ pc' = "notify"
       /\ pc = "notify"
            => /\ pc' = "done"
               /\ result' = ExecutionResult(FALSE, "usage_limit_exceeded", actions_executed,
                                            1, action_results',
                                            Str("Usage limit exceeded for "
                                                \o py_str(GetOr(cur.output, "service",
                                                                Str("unknown")))))
       /\ (pc' = "done" /\ pc # "done" /\ result'.status = "usage_limit_exceeded")
            => notified' = IF has_notifier /\ Truthy(automation_id) THEN 1 ELSE 0
       /\ (pc' = "done" /\ pc # "done" /\ result'.status # "usage_limit_exceeded")
            => notified' = 0]_vars

\* a quota halt with a handler and an automation_id: one call, then the result
C25_Witness ==
    /\ Returned
    /\ result.status = "usage_limit_exceeded"
    /\ has_notifier
    /\ Truthy(automation_id)
    /\ notified = 1

\* C29: when variables defines neither user nor trigger_data, both entries
\* of the context keep their initial values for the whole run, whatever the
\* output_as names of the actions: user is the UserInfo record and
\* trigger_data is the original trigger payload.
C29_ReservedEntriesKept ==
    /\ ~HasKey(variables, "user") => Get(context, "user") = user_dict_of(user_info)
    /\ ~HasKey(variables, "trigger_data") => Get(context, "trigger_data") = trigger_data

\* the same for the runs in which no successful action so far declares
\* output_as user or trigger_data
ReservedEntriesKeptUnlessPublished ==
    /\ (~HasKey(variables, "user") /\ "user" \notin PublishedNames)
         => Get(context, "user") = user_dict_of(user_info)
    /\ (~HasKey(variables, "trigger_data") /\ "trigger_data" \notin PublishedNames)
         => Get(context, "trigger_data") = trigger_data

\* the text of the pieces with each placeholder replaced, once, by what
\* replace_var makes of its body
RECURSIVE ReplacedOnce(_, _)
ReplacedOnce(pieces, ctx) ==
    IF pieces = <<>> THEN ""
    ELSE (IF Head(pieces).ph THEN replace_var(Head(pieces).text, ctx).s
          ELSE Head(pieces).text)
         \o ReplacedOnce(Tail(pieces), ctx)

\* the two contexts give the same value for every path that a placeholder
\* of the pieces names
AgreeOnNamedPaths(pieces, ctx1, ctx2) ==
    \A i \in 1..Len(pieces) :
        (pieces[i].ph /\ Strip(pieces[i].text) \notin BuiltinNames)
          => get_nested_value(ctx1, Strip(pieces[i].text))
               = get_nested_value(ctx2, Strip(pieces[i].text))

Reports(messages, message) == \E i \in 1..Len(messages) : messages[i] = message

\* the clause lacks a value that its op needs
LacksNeededValue(clause) ==
    ~HasKey(clause, "value") /\ Get(clause, "op") \notin {Str("exists"), Str("not_exists")}

\* what the validator reports apart from missing values: a missing op, a
\* missing path in a composition, an operator that is neither AND nor OR
ReportsStructure ==
    probe.fn = "validate_condition_structure" =>
      IF ~IsDict(probe.condition) THEN probe.out # <<>>
      ELSE IF HasKey(probe.condition, "path")
      THEN Reports(probe.out, "action_0: condition clause missing 'op'")
             = ~HasKey(probe.condition, "op")
      ELSE IF HasKey(probe.condition, "clauses") /\ IsList(Get(probe.condition, "clauses"))
      THEN /\ Reports(probe.out, "action_0: condition operator must be 'AND' or 'OR'")
                = (/\ HasKey(probe.condition, "operator")
                   /\ Get(probe.condition, "operator") \notin {Str("AND"), Str("OR")})
           /\ \A j \in 1..Len(Get(probe.condition, "clauses").xs) :
                LET Numbered(clause, n) ==
                      /\ Reports(probe.out, "action_0: clause " \o n \o " missing 'path'")
                           = ~HasKey(clause, "path")
                      /\ Reports(probe.out, "action_0: clause " \o n \o " missing 'op'")
                           = ~HasKey(clause, "op")
                IN Numbered(Get(probe.condition, "clauses").xs[j], ToString(j - 1))
      ELSE TRUE

\* C21: the validator reports a missing value exactly for the clauses whose
\* op is neither exists nor not_exists, so a clause with op exists or
\* not_exists and no value is accepted; it reports a clause without op, a
\* clause of a composition without path, and a composition whose operator is
\* neither AND nor OR.
C21_ValueRequiredUnlessExistence ==
    /\ ReportsStructure
    /\ (probe.fn = "validate_condition_structure" /\ IsDict(probe.condition)) =>
         IF HasKey(probe.condition, "path")
         THEN Reports(probe.out, "action_0: condition clause missing 'value'")
                = LacksNeededValue(probe.condition)
         ELSE IF HasKey(probe.condition, "clauses") /\ IsList(Get(probe.condition, "clauses"))
         THEN \A j \in 1..Len(Get(probe.condition, "clauses").xs) :
                Reports(probe.out,
                        "action_0: clause " \o ToString(j - 1) \o " missing 'value'")
                  = LacksNeededValue(Get(probe.condition, "clauses").xs[j])
         ELSE TRUE

\* C24: the preflight reports a path as unresolved exactly when the resolver
\* of the runtime returns None for it (the path taken without its
\* trigger_data. prefix), negative indices and the per-item fallback included
C24_SameResolver ==
    (/\ probe.fn = "validate_paths_against_output"
     /\ probe.out # ValueError
     /\ get_nested_value(probe.sample_output, probe.path) # ValueError)
      => (probe.out.texts # {}
            <=> get_nested_value(probe.sample_output, probe.path) = Null)

\* what the two resolvers do agree on: a path that the preflight finds with a
\* value other than None resolves to that value at run time
FoundResolvesAlike ==
    probe.fn = "validate_paths_against_output"
      => LET f == validation_get_nested_value(probe.sample_output,
                                              "trigger_data." \o probe.path)
         IN (f # ValueError /\ f.found /\ f.value # Null)
              => get_nested_value(probe.sample_output, probe.path) = f.value

\* the source tool named by the trigger_config is in the registry
SourceKnown(trigger_config) ==
    /\ Truthy(Get(trigger_config, "source_tool"))
    /\ Get(trigger_config, "source_tool").s \in RegistryTools

\* the handler gives no sample: it raises, times out, or returns an error
\* text or a text that is not JSON
GivesNoSample(handler) ==
    \/ handler.kind \in {"raise", "timeout"}
    \/ /\ handler.kind = "return"
       /\ IsStr(handler.value)
       /\ \/ StartsWith(handler.value.s, "Error:")
          \/ ~json_loads(handler.value.s).ok

\* the sample that the handler gives (a returned text is JSON and stands
\* for the value it encodes)
SampleOf(handler) ==
    IF IsStr(handler.value) THEN json_loads(handler.value.s).v ELSE handler.value

\* the preflight returned
PreflightReturned ==
    /\ probe.fn = "preflight_validate_polling_automation"
    /\ probe.out # ValueError

DeployedAutomation(call) ==
    IF call.fn = "deploy_automation" THEN call.automation
    ELSE IF json_loads(call.input_str).ok THEN json_loads(call.input_str).v
    ELSE Null

\* the checks of the deployment, made on their own: the static validation,
\* the check of the fetched schemas when a record of them is supplied, and
\* the preflight when the trigger type is polling and the preflight is run
StaticPasses(automation) ==
    validate_automation_actions(GetOr(automation, "actions", List(<<>>)), RegistryTools,
                                Get(automation, "trigger_type"),
                                CorrectedConfig(GetOr(automation, "trigger_config",
                                                      Map(<<>>)))).ok

Discovered(automation, schemas) ==
    \A i \in 1..Len(Get(automation, "actions").xs) :
      LET action == Get(automation, "actions").xs[i] IN
      HasKey(action, "tool")
        => /\ HasKey(schemas, Get(action, "tool").s)
           /\ Get(action, "tool").s \in RegistryTools
           /\ Keys(GetOr(action, "parameters", Map(<<>>)))
                \subseteq Keys(PyOr(tool_parameters(Get(action, "tool").s), Map(<<>>)))

PreflightFails(automation, handler) ==
    LET Fails(preflight) == preflight # ValueError /\ ~preflight.ok
    IN Fails(preflight_validate_polling_automation(
               CorrectedConfig(GetOr(automation, "trigger_config", Map(<<>>))),
               Get(automation, "actions").xs, RegistryTools, handler))

ChecksPass(call, schemas) ==
    LET automation == DeployedAutomation(call) IN
    /\ automation # Null
    /\ StaticPasses(automation)
    /\ call.with_context => Discovered(automation, schemas)
    /\ (/\ Get(automation, "trigger_type") = Str("polling")
        /\ call.fn = "deploy_automation" => call.run_preflight)
         => ~PreflightFails(automation, call.handler)

\* the reply of a deployment is a refusal that lists errors
Refused(call) ==
    IF call.fn = "deploy_automation"
    THEN /\ ~call.out.success
         /\ call.out.automation_id = Null
         /\ call.out.message.text = "Validation failed:"
         /\ \/ call.out.message.details.structure # <<>>
            \/ call.out.message.details.schema # <<>>
            \/ call.out.message.details.preflight # {}
    ELSE \/ StartsWith(call.out.text, "Error:")
         \/ call.out.text = "Validation failed:" /\ call.out.details # <<>>
         \/ call.out.text = "Pre-flight validation failed:" /\ call.out.details # {}

IsDeployment(call) ==
    call.fn \in {"deploy_automation", "populate_prod_db_declarative_async"}

\* C23: a deployment writes to the storage only if every check passed: the
\* static validation, the check of the fetched schemas when a record of
\* them is supplied, and for a polling automation the preflight; when a
\* check fails, the deployment returns errors and writes nothing
C23_PersistAfterChecks ==
    [][IsDeployment(probe') =>
         /\ automation_records' # automation_records
              => /\ ChecksPass(probe', fetched_tool_schemas)
                 /\ Len(automation_records') = Len(automation_records) + 1
                 /\ SubSeq(automation_records', 1, Len(automation_records))
                      = automation_records
         /\ (~ChecksPass(probe', fetched_tool_schemas) /\ probe'.out # ValueError)
              => /\ automation_records' = automation_records
                 /\ Refused(probe')]_vars

\* a polling automation was deployed with a record of the fetched schemas:
\* the three checks were made, and its record is the last of the storage
C23_Witness ==
    /\ probe.fn = "populate_prod_db_declarative_async"
    /\ probe.with_context
    /\ probe.out.text = "Automation deployed successfully!"
    /\ automation_records # <<>>
    /\ Get(automation_records[Len(automation_records)], "trigger_type") = Str("polling")
    /\ Get(automation_records[Len(automation_records)], "status") = Str("pending_review")

\* the deployment made its record
Succeeded(call) ==
    /\ call.out # ValueError
    /\ IF call.fn = "deploy_automation" THEN call.out.success
       ELSE call.out.text = "Automation deployed successfully!"

\* a deployment given the record of the fetched schemas succeeds only if
\* the record has the tool of every action and the tool declares every
\* parameter named by the action
DeployedOnlyDiscovered ==
    (IsDeployment(probe) /\ probe.with_context /\ Succeeded(probe))
      => Discovered(DeployedAutomation(probe), fetched_tool_schemas)

\* the record of the fetched schemas starts empty and gains a tool only in
\* a call of fetch_tool_data that is given the record and asks for the tool
RecordedByFetch ==
    fetched_tool_schemas' # fetched_tool_schemas
      => /\ probe'.fn = "fetch_tool_data"
         /\ probe'.recording
         /\ Keys(fetched_tool_schemas) \subseteq Keys(fetched_tool_schemas')
         /\ Keys(fetched_tool_schemas') \ Keys(fetched_tool_schemas)
              \subseteq {probe'.tool_names[i] : i \in 1..Len(probe'.tool_names)}

\* after a call of fetch_tool_data given the record, the record has each of
\* the first n names asked for that the registry has
FetchRecords(n) ==
    (probe.fn = "fetch_tool_data" /\ probe.recording)
      => \A i \in 1..Len(probe.tool_names) :
           (i <= n /\ probe.tool_names[i] \in RegistryTools)
             => HasKey(fetched_tool_schemas, probe.tool_names[i])

=============================================================================
